---- MODULE Spec2Model ----
(***************************************************************************)
(* A model of the torchbearer crate of redwarp/ambergris: the A* path      *)
(* search of path.rs, the Bresenham line iterator of bresenham.rs and the  *)
(* field of view of fov.rs; and of the FovMap of the field_of_vision       *)
(* crate.                                                                  *)
(*                                                                         *)
(* Points are pairs <<x, y>>.  An f32 value is a record of its integer     *)
(* part and its fraction in units of 2^-23; every f32 sum is rounded to    *)
(* the 24-bit mantissa of its binade, to nearest, ties to even, as the     *)
(* hardware does.  fov.rs names the line iterator Bresenham and path.rs    *)
(* BresenhamLine: both are the LineBresenham of bresenham.rs.              *)
(***************************************************************************)
EXTENDS Integers, Sequences, FiniteSets, TLC

VARIABLES
    width, height,   \* Graph::dimensions()
    walkable,        \* SampleMap.walkable: index (x + y * width) -> BOOLEAN
    from, to,        \* the arguments of astar_path
    frontier,        \* BinaryHeap<State>: the heap's backing vector
    came_from,       \* Vec<Option<usize>>
    costs,           \* Vec<Option<f32>>
    to_cost,         \* f32
    current,         \* reconstruct_path: current (an index)
    path,            \* reconstruct_path: path (indexes, destination first)
    result,          \* the value astar_path returns
    pc,              \* "call" | "search" | "reconstruct" | "done" | "panicked",
                     \* "idle" outside a search
    opaque,          \* fov.rs SampleMap: index (x + y * width) -> is_opaque
    fwidth, fheight, \* Map::dimensions() of the field of view's map
    origin,          \* field_of_view: (x, y)
    radius,          \* field_of_view: radius
    include_walls,   \* field_of_view: include_walls
    visibles,        \* field_of_view: the window's buffer, index -> BOOLEAN
    rays,            \* the destinations of the rays still to cast, in order
    quadrants,       \* the post_process_vision calls still to make, in order
    fov,             \* the value field_of_view returns
    fpc,             \* "start" | "rays" | "post" | "collect" | "done", or "idle"
    line_start,      \* LineBresenham::new: start
    line_end,        \* LineBresenham::new: end
    line_it,         \* the LineBresenham iterating
    line_len,        \* what len() returned on the fresh iterator
    yielded,         \* the points next() has returned, in order
    lpc,             \* "iterate" | "done", or "idle"
    steps,           \* a Graph whose neighboors pushes a + steps[k], k in order
    calls,           \* the calls astar_path made for the neighbours, and why
    mwidth, mheight, \* FovMap: width, height (the arguments of new before it runs)
    transparent,     \* FovMap: transparent, index (x + y * width) -> BOOLEAN
    vision,          \* FovMap: vision, index (x + y * width) -> BOOLEAN
    last_origin,     \* FovMap: last_origin
    last_radius,     \* the radius of the last call of FovMap::calculate_fov
    mpc,             \* "new" | "built" | "panicked", or "idle"
    mmsg             \* the message of the panic

avars == <<width, height, walkable, from, to, frontier, came_from, costs,
           to_cost, current, path, result, pc>>

fvars == <<opaque, fwidth, fheight, origin, radius, include_walls, visibles,
           rays, quadrants, fov, fpc>>

lvars == <<line_start, line_end, line_it, line_len, yielded, lpc>>

gvars == <<steps, calls>>

mvars == <<mwidth, mheight, transparent, vision, last_origin, last_radius, mpc, mmsg>>

vars == <<avars, fvars, lvars, gvars, mvars>>

(***************************************************************************)
(* Bounds of the model.                                                    *)
(***************************************************************************)
MaxWidth == 3
MaxHeight == 3
MaxWalls == 2

(***************************************************************************)
(* f32 arithmetic.  A non-negative f32 is [whole, frac]: its integer part  *)
(* and its fraction in units of 2^-23, so that whole + frac / 2^23 is the  *)
(* value.  In [q, 2q), q a power of two, consecutive f32 values are q      *)
(* units apart; a sum is rounded to the nearest of them, ties to even.     *)
(***************************************************************************)
F32Unit == 2^23

F32(whole, frac) == [whole |-> whole, frac |-> frac]

\* `as f32` of a small non-negative integer is exact.
F32FromInt(i) == F32(i, 0)

F32Lt(a, b) == a.whole < b.whole \/ (a.whole = b.whole /\ a.frac < b.frac)

F32Le(a, b) == a.whole < b.whole \/ (a.whole = b.whole /\ a.frac <= b.frac)

\* The largest power of two that is at most n, for n >= 1 (1 for n = 0).
RECURSIVE F32Ulp(_, _)
F32Ulp(n, q) == IF n < 2 * q THEN q ELSE F32Ulp(n, 2 * q)

F32Round(whole, frac) ==
    LET q == F32Ulp(whole, 1)
        r == frac % q
        lo == frac - r
        rounded == IF 2 * r < q THEN lo
                   ELSE IF 2 * r > q THEN lo + q
                   ELSE IF (lo \div q) % 2 = 0 THEN lo ELSE lo + q
    IN  IF rounded >= F32Unit
        THEN F32(whole + 1, rounded - F32Unit)
        ELSE F32(whole, rounded)

F32Add(a, b) ==
    LET frac == a.frac + b.frac
    IN  IF frac >= F32Unit
        THEN F32Round(a.whole + b.whole + 1, frac - F32Unit)
        ELSE F32Round(a.whole + b.whole, frac)

\* 0.001 * 1. added to 1. in f32: 0.001f32 is 8589935 * 2^-33, that is
\* 8388.6 units of 2^-23, and the sum rounds to 1 + 8389 * 2^-23.
NudgeFrac == 8389

\* Option<f32>::None.
NoCost == F32(-1, 0)

(***************************************************************************)
(* Helpers of path.rs.                                                     *)
(***************************************************************************)
None == -1

Abs(i) == IF i < 0 THEN -i ELSE i

\* Rust's %: the remainder takes the sign of the dividend.
Rem(a, b) == IF a >= 0 THEN a % b ELSE -((-a) % b)

point_to_index(p, w) == p[1] + p[2] * w

\* `index as i32 % width, index as i32 / width`: Rust's / truncates towards
\* zero.
index_to_point(index, w) ==
    <<Rem(index, w), IF index >= 0 THEN index \div w ELSE -((-index) \div w)>>

is_walkable(walk, w, x, y) == walk[x + y * w]

\* A cost_between that forgets the tie-break nudge.
cost_between_plain(a, b) == F32(1, 0)

\* Steps that cost nothing.
cost_between_free(a, b) == F32(0, 0)

cost_between(a, b) ==
    LET x1 == a[1]
        y1 == a[2]
        x2 == b[1]
        y2 == b[2]
        nudge == \/ (Rem(x1 + y1, 2) = 0 /\ x2 # x1)
                 \/ (Rem(x1 + y1, 2) = 1 /\ y2 # y1)
    IN  IF nudge THEN F32(1, NudgeFrac) ELSE F32(1, 0)

\* A heuristic that counts every step twice.
heuristic_doubled(a, b) == F32FromInt(2 * (Abs(a[1] - b[1]) + Abs(a[2] - b[2])))

heuristic(a, b) == F32FromInt(Abs(a[1] - b[1]) + Abs(a[2] - b[2]))

\* A neighboors that forgets the neighbour to the east.
neighboors_no_east(a) ==
    << <<a[1], a[2] + 1>>, <<a[1], a[2] - 1>>, <<a[1] - 1, a[2]>> >>

neighboors(a) ==
    << <<a[1], a[2] + 1>>, <<a[1], a[2] - 1>>,
       <<a[1] - 1, a[2]>>, <<a[1] + 1, a[2]>> >>

(***************************************************************************)
(* State and std::collections::BinaryHeap.  A State is [cost, item]; the   *)
(* heap's vector is a sequence, heap position p being element p + 1.       *)
(***************************************************************************)
\* A State::cmp that does not flip the order: the heap is a max-heap.
StateLe_not_flipped(a, b) == F32Le(a.cost, b.cost)

\* State::cmp flips the order of the costs: a <= b as States iff
\* b.cost <= a.cost.
StateLe(a, b) == F32Le(b.cost, a.cost)

Swap(data, i, j) ==
    [data EXCEPT ![i + 1] = data[j + 1], ![j + 1] = data[i + 1]]

RECURSIVE sift_up(_, _, _)
sift_up(data, start, pos) ==
    IF pos > start
    THEN LET parent == (pos - 1) \div 2
         IN  IF StateLe(data[pos + 1], data[parent + 1])
             THEN data
             ELSE sift_up(Swap(data, pos, parent), start, parent)
    ELSE data

RECURSIVE sift_down_to_bottom(_, _, _)
sift_down_to_bottom(data, start, pos) ==
    LET end == Len(data)
        child == 2 * pos + 1
    IN  IF child + 1 < end
        THEN LET c == IF StateLe(data[child + 1], data[child + 2])
                      THEN child + 1 ELSE child
             IN  sift_down_to_bottom(Swap(data, pos, c), start, c)
        ELSE IF child = end - 1
        THEN sift_up(Swap(data, pos, child), start, child)
        ELSE sift_up(data, start, pos)

heap_push(data, item) == sift_up(Append(data, item), 0, Len(data))

\* BinaryHeap::pop of a non-empty heap: [item, data].
heap_pop(data) ==
    LET n == Len(data)
        last == data[n]
        rest == SubSeq(data, 1, n - 1)
    IN  IF n = 1
        THEN [item |-> last, data |-> <<>>]
        ELSE [item |-> data[1],
              data |-> sift_down_to_bottom([rest EXCEPT ![1] = last], 0, 0)]

(***************************************************************************)
(* bresenham.rs: LineBresenham.  An iterator is the record of its fields.  *)
(***************************************************************************)
\* Octant::from_points without its last test, which tells the steep octants
\* from the flat ones.
Octant_from_points_flat(start, end) ==
    LET dx0 == end[1] - start[1]
        dy0 == end[2] - start[2]
        s1 == IF dy0 < 0 THEN [dx |-> -dx0, octant |-> 4]
                         ELSE [dx |-> dx0, octant |-> 0]
    IN  IF s1.dx < 0 THEN s1.octant + 2 ELSE s1.octant

Octant_from_points(start, end) ==
    LET dx0 == end[1] - start[1]
        dy0 == end[2] - start[2]
        s1 == IF dy0 < 0
              THEN [dx |-> -dx0, dy |-> -dy0, octant |-> 4]
              ELSE [dx |-> dx0, dy |-> dy0, octant |-> 0]
        s2 == IF s1.dx < 0
              THEN [dx |-> s1.dy, dy |-> -s1.dx, octant |-> s1.octant + 2]
              ELSE s1
    IN  IF s2.dx < s2.dy THEN s2.octant + 1 ELSE s2.octant

to_octant0(octant, p) ==
    CASE octant = 0 -> <<p[1], p[2]>>
      [] octant = 1 -> <<p[2], p[1]>>
      [] octant = 2 -> <<p[2], -p[1]>>
      [] octant = 3 -> <<-p[1], p[2]>>
      [] octant = 4 -> <<-p[1], -p[2]>>
      [] octant = 5 -> <<-p[2], -p[1]>>
      [] octant = 6 -> <<-p[2], p[1]>>
      [] octant = 7 -> <<p[1], -p[2]>>

\* A from_octant0 that applies the transform of to_octant0 again.
from_octant0_same_way(octant, p) ==
    CASE octant = 0 -> <<p[1], p[2]>>
      [] octant = 1 -> <<p[2], p[1]>>
      [] octant = 2 -> <<p[2], -p[1]>>
      [] octant = 3 -> <<-p[1], p[2]>>
      [] octant = 4 -> <<-p[1], -p[2]>>
      [] octant = 5 -> <<-p[2], -p[1]>>
      [] octant = 6 -> <<-p[2], p[1]>>
      [] octant = 7 -> <<p[1], -p[2]>>

from_octant0(octant, p) ==
    CASE octant = 0 -> <<p[1], p[2]>>
      [] octant = 1 -> <<p[2], p[1]>>
      [] octant = 2 -> <<-p[2], p[1]>>
      [] octant = 3 -> <<-p[1], p[2]>>
      [] octant = 4 -> <<-p[1], -p[2]>>
      [] octant = 5 -> <<-p[2], -p[1]>>
      [] octant = 6 -> <<p[2], -p[1]>>
      [] octant = 7 -> <<p[1], -p[2]>>

LineBresenham_new(start, end) ==
    LET octant == Octant_from_points(start, end)
        s == to_octant0(octant, start)
        e == to_octant0(octant, end)
        dx == e[1] - s[1]
        dy == e[2] - s[2]
    IN  [x |-> s[1], y |-> s[2], dx |-> dx, dy |-> dy, x1 |-> e[1], y1 |-> e[2],
         diff |-> dy - dx, octant |-> octant]

\* A next that does not take dx off the error when y steps.
LineBresenham_next_error_kept(it) ==
    IF it.x = it.x1
    THEN [some |-> TRUE, item |-> from_octant0(it.octant, <<it.x1, it.y1>>),
          it |-> [it EXCEPT !.x = it.x + 1]]
    ELSE IF it.x > it.x1
    THEN [some |-> FALSE, item |-> <<0, 0>>, it |-> it]
    ELSE LET stepped == IF it.diff >= 0
                        THEN [it EXCEPT !.y = it.y + 1]
                        ELSE it
         IN  [some |-> TRUE, item |-> from_octant0(it.octant, <<it.x, it.y>>),
              it |-> [stepped EXCEPT !.diff = stepped.diff + it.dy, !.x = it.x + 1]]

\* Iterator::next: [some, item, it], it being the iterator afterwards.
LineBresenham_next(it) ==
    IF it.x = it.x1
    THEN [some |-> TRUE, item |-> from_octant0(it.octant, <<it.x1, it.y1>>),
          it |-> [it EXCEPT !.x = it.x + 1]]
    ELSE IF it.x > it.x1
    THEN [some |-> FALSE, item |-> <<0, 0>>, it |-> it]
    ELSE LET stepped == IF it.diff >= 0
                        THEN [it EXCEPT !.y = it.y + 1, !.diff = it.diff - it.dx]
                        ELSE it
         IN  [some |-> TRUE, item |-> from_octant0(it.octant, <<it.x, it.y>>),
              it |-> [stepped EXCEPT !.diff = stepped.diff + it.dy, !.x = it.x + 1]]

\* Iterator::collect: the points the iterator yields until next() is None.
RECURSIVE LineBresenham_collect(_)
LineBresenham_collect(it) ==
    LET n == LineBresenham_next(it)
    IN  IF n.some THEN <<n.item>> \o LineBresenham_collect(n.it) ELSE <<>>

(***************************************************************************)
(* astar_path: the search loop.  A search state is the record of the       *)
(* locals frontier, came_from and costs.                                   *)
(***************************************************************************)
\* The state astar_path builds before its loop (lines 134-151).
search_start(w, h, src) ==
    LET from_index == point_to_index(src, w)
    IN  [frontier |-> heap_push(<<>>, [cost |-> F32FromInt(0), item |-> from_index]),
         came_from |-> [i \in 0..(w * h - 1) |-> None],
         costs |-> [[i \in 0..(w * h - 1) |-> NoCost] EXCEPT ![from_index] = F32FromInt(0)]]

\* A visit that tests the bounds but not is_walkable.
visit_any_cell(st, current_index, next, w, h, walk, dest) ==
    LET x == next[1]
        y == next[2]
    IN  IF x < 0 \/ y < 0 \/ x >= w \/ y >= h
        THEN st
        ELSE LET next_index == point_to_index(next, w)
                 new_cost == F32Add(st.costs[current_index],
                                    cost_between(index_to_point(current_index, w), next))
             IN  IF st.costs[next_index] = NoCost \/ F32Lt(new_cost, st.costs[next_index])
                 THEN [frontier |-> heap_push(st.frontier,
                                      [cost |-> F32Add(new_cost, heuristic(next, dest)),
                                       item |-> next_index]),
                       came_from |-> [st.came_from EXCEPT ![next_index] = current_index],
                       costs |-> [st.costs EXCEPT ![next_index] = new_cost]]
                 ELSE st

\* The body of `for &(x, y) in neighboors.iter()` for one neighbour.
visit(st, current_index, next, w, h, walk, dest) ==
    LET x == next[1]
        y == next[2]
    IN  IF x < 0 \/ y < 0 \/ x >= w \/ y >= h \/ ~is_walkable(walk, w, x, y)
        THEN st
        ELSE LET next_index == point_to_index(next, w)
                 cost_so_far == st.costs[current_index]
                 new_cost == F32Add(cost_so_far,
                                    cost_between(index_to_point(current_index, w), next))
             IN  IF st.costs[next_index] = NoCost \/ F32Lt(new_cost, st.costs[next_index])
                 THEN LET priority == F32Add(new_cost, heuristic(next, dest))
                      IN  [frontier |-> heap_push(st.frontier,
                                           [cost |-> priority, item |-> next_index]),
                           came_from |-> [st.came_from EXCEPT ![next_index] = current_index],
                           costs |-> [st.costs EXCEPT ![next_index] = new_cost]]
                 ELSE st

RECURSIVE visit_all(_, _, _, _, _, _, _, _)
visit_all(st, current_index, ns, k, w, h, walk, dest) ==
    IF k > Len(ns)
    THEN st
    ELSE visit_all(visit(st, current_index, ns[k], w, h, walk, dest),
                   current_index, ns, k + 1, w, h, walk, dest)

\* One iteration of the while loop that does not break: the popped State
\* is expanded.
expand(st, popped, w, h, walk, dest) ==
    visit_all([st EXCEPT !.frontier = popped.data], popped.item.item,
              neighboors(index_to_point(popped.item.item, w)), 1, w, h, walk, dest)

Reverse(s) == [i \in 1..Len(s) |-> s[Len(s) + 1 - i]]

NoPath == [some |-> FALSE, path |-> <<>>]

SomePath(p) == [some |-> TRUE, path |-> p]

\* reconstruct_path.  A state of its loop is [current, path, done, result];
\* one step is one iteration (lines 201-208) or the lines after the loop.
reconstruct_start(dest, w) ==
    [current |-> point_to_index(dest, w), path |-> <<>>, done |-> FALSE, result |-> NoPath]

reconstruct_step(r, target_index, cf, w) ==
    IF r.done
    THEN r
    ELSE IF r.current # target_index
    THEN IF cf[r.current] # None
         THEN [r EXCEPT !.path = Append(r.path, r.current), !.current = cf[r.current]]
         ELSE [r EXCEPT !.path = Append(r.path, r.current), !.done = TRUE]
    ELSE LET full == Append(r.path, target_index)
         IN  [r EXCEPT !.path = full, !.done = TRUE,
                       !.result = SomePath(Reverse([i \in 1..Len(full) |->
                                                       index_to_point(full[i], w)]))]

\* k iterations, halving k so that a long loop nests only a little.
RECURSIVE reconstruct_run(_, _, _, _, _)
reconstruct_run(r, k, target_index, cf, w) ==
    IF r.done \/ k = 0 THEN r
    ELSE IF k = 1 THEN reconstruct_step(r, target_index, cf, w)
    ELSE LET half == reconstruct_run(r, k \div 2, target_index, cf, w)
         IN  reconstruct_run(half, k - (k \div 2), target_index, cf, w)

\* The loop to its end: k iterations, then twice as many, and so on.
RECURSIVE reconstruct_loop(_, _, _, _, _)
reconstruct_loop(r, k, target_index, cf, w) ==
    LET after == reconstruct_run(r, k, target_index, cf, w)
    IN  IF after.done THEN after ELSE reconstruct_loop(after, 2 * k, target_index, cf, w)

reconstruct_path(src, dest, cf, w) ==
    reconstruct_loop(reconstruct_start(dest, w), 1, point_to_index(src, w), cf, w).result

\* One iteration of `while let Some(..) = frontier.pop()` (lines 153-181);
\* ended tells that the loop was left, to_cost is the local of line 151.
search_step(s, w, h, walk, dest) ==
    IF s.ended
    THEN s
    ELSE IF s.st.frontier = <<>>
    THEN [s EXCEPT !.ended = TRUE]
    ELSE LET popped == heap_pop(s.st.frontier)
         IN  IF popped.item.item = point_to_index(dest, w)
             THEN [st |-> [s.st EXCEPT !.frontier = popped.data], ended |-> TRUE,
                   to_cost |-> popped.item.cost]
             ELSE [st |-> expand(s.st, popped, w, h, walk, dest), ended |-> FALSE,
                   to_cost |-> s.to_cost]

RECURSIVE search_run(_, _, _, _, _, _)
search_run(s, k, w, h, walk, dest) ==
    IF s.ended \/ k = 0 THEN s
    ELSE IF k = 1 THEN search_step(s, w, h, walk, dest)
    ELSE LET half == search_run(s, k \div 2, w, h, walk, dest)
         IN  search_run(half, k - (k \div 2), w, h, walk, dest)

RECURSIVE search_loop(_, _, _, _, _, _)
search_loop(s, k, w, h, walk, dest) ==
    LET after == search_run(s, k, w, h, walk, dest)
    IN  IF after.ended THEN after ELSE search_loop(after, 2 * k, w, h, walk, dest)

\* The locals of astar_path when its loop is left, to_cost among them.
search_end(w, h, walk, src, dest) ==
    search_loop([st |-> search_start(w, h, src), ended |-> FALSE,
                 to_cost |-> F32FromInt(0)], 1, w, h, walk, dest)

\* frontier, came_from and costs when the loop is left.
search(w, h, walk, src, dest) == search_end(w, h, walk, src, dest).st

\* astar_path (and astar_path_fourwaygrid) as a function of its arguments.
astar_path(w, h, walk, src, dest) ==
    reconstruct_path(src, dest, search(w, h, walk, src, dest).came_from, w)

(***************************************************************************)
(* astar_path as a state machine: one step per iteration of each loop.     *)
(***************************************************************************)
Points(w, h) == {<<x, y>> : x \in 0..(w - 1), y \in 0..(h - 1)}

Maps(w, h, walls) ==
    {m \in [0..(w * h - 1) -> BOOLEAN] :
        Cardinality({i \in 0..(w * h - 1) : ~m[i]}) <= walls}

AStarStart(w, h, walk, src, dest) ==
    LET st == search_start(w, h, src)
    IN  /\ width = w
        /\ height = h
        /\ walkable = walk
        /\ from = src
        /\ to = dest
        /\ frontier = st.frontier
        /\ came_from = st.came_from
        /\ costs = st.costs
        /\ to_cost = F32FromInt(0)
        /\ current = None
        /\ path = <<>>
        /\ result = NoPath
        /\ pc = "search"

\* The field of view's variables while a path is searched.
FovIdle ==
    /\ opaque = <<>>
    /\ fwidth = 0
    /\ fheight = 0
    /\ origin = <<0, 0>>
    /\ radius = 0
    /\ include_walls = FALSE
    /\ visibles = <<>>
    /\ rays = <<>>
    /\ quadrants = <<>>
    /\ fov = <<>>
    /\ fpc = "idle"

\* The line iterator's variables while no line is iterated.
LineIdle ==
    /\ line_start = <<0, 0>>
    /\ line_end = <<0, 0>>
    /\ line_it = <<>>
    /\ line_len = 0
    /\ yielded = <<>>
    /\ lpc = "idle"

\* No Graph other than FourWayGridGraph is searched.
GraphIdle ==
    /\ steps = <<>>
    /\ calls = {}

\* No FovMap is constructed.
FovMapIdle ==
    /\ mwidth = 0
    /\ mheight = 0
    /\ transparent = <<>>
    /\ vision = <<>>
    /\ last_origin = <<-1, -1>>
    /\ last_radius = 0
    /\ mpc = "idle"
    /\ mmsg = ""

\* tests::SampleMap of path.rs.
SampleMap_new(w, h) == [i \in 0..(w * h - 1) |-> TRUE]

\* build_wall: the map with the cells of the line made unwalkable, or
\* "panicked" when a point of the line has an index outside the vector.
build_wall(walk, w, start, end) ==
    LET line == LineBresenham_collect(LineBresenham_new(start, end))
    IN  IF \E k \in 1..Len(line) : point_to_index(line[k], w) \notin DOMAIN walk
        THEN "panicked"
        ELSE [i \in DOMAIN walk |->
                walk[i] /\ \A k \in 1..Len(line) : point_to_index(line[k], w) # i]

\* The map of tests::astar_find_path, and its origin and destination.
TestSize == 10

FindPathMap ==
    build_wall(build_wall(SampleMap_new(TestSize, TestSize), TestSize, <<3, 3>>, <<3, 6>>),
               TestSize, <<0, 3>>, <<3, 3>>)

\* The map of tests::astar_no_path.
NoPathMap == build_wall(FindPathMap, TestSize, <<0, 6>>, <<3, 6>>)

TestFrom == <<0, 4>>

TestTo == <<5, 4>>

(***************************************************************************)
(* A long map.  Two corridors lead from LongFrom to LongTo, walls          *)
(* everywhere else.  Both are staircases that zigzag between a low and a   *)
(* high row.  The lower one steps in x from its even cells and in y from   *)
(* its odd cells, so cost_between nudges every step of it; the upper one   *)
(* steps in y from its even cells and in x from its odd cells and is       *)
(* hardly nudged, but it starts with a step to the west and is two steps   *)
(* longer.  Coordinates are relative to LongFrom.                          *)
(***************************************************************************)
LongAmplitude == 6
LongPeriods == 127

LongN == (2 * LongPeriods + 1) * LongAmplitude

Tri(i) ==
    LET m == i % (2 * LongAmplitude)
    IN  IF m <= LongAmplitude THEN m ELSE 2 * LongAmplitude - m

UpperY(j) == IF j < 2 THEN j + 1 ELSE 3 + Tri(j - 2)

OnCorridor(x, y) ==
    \/ (0 <= x /\ x <= LongN /\ y = Tri(x))
    \/ (1 <= x /\ x <= LongN /\ y = Tri(x - 1))
    \/ (x = -1 /\ y = 0)
    \/ (-1 <= x /\ x <= LongN - 2 /\ y = UpperY(x + 1))
    \/ (-1 <= x /\ x <= LongN - 3 /\ y = UpperY(x + 2))
    \/ (x = LongN - 1 /\ y = LongAmplitude)

LongWidth == LongN + 3

LongHeight == LongAmplitude + 4

LongMap ==
    [i \in 0..(LongWidth * LongHeight - 1) |->
        OnCorridor((i % LongWidth) - 2, i \div LongWidth)]

LongFrom == <<2, 0>>

LongTo == <<LongN + 2, LongAmplitude>>

InitLong == AStarStart(LongWidth, LongHeight, LongMap, LongFrom, LongTo)

\* Every map of the bounded sizes, with every origin and destination.
InitGrids ==
    \E w \in 1..MaxWidth, h \in 1..MaxHeight :
        \E walk \in Maps(w, h, MaxWalls), src \in Points(w, h), dest \in Points(w, h) :
            AStarStart(w, h, walk, src, dest)

\* The two maps of the tests of path.rs, searched from the tests' origin.
InitTests ==
    \E walk \in {FindPathMap, NoPathMap}, dest \in Points(TestSize, TestSize) :
        AStarStart(TestSize, TestSize, walk, TestFrom, dest)

Init == (InitGrids \/ InitTests) /\ FovIdle /\ LineIdle /\ GraphIdle /\ FovMapIdle

\* frontier.pop() gives the destination: break.
PopDestination ==
    /\ pc = "search"
    /\ frontier # <<>>
    /\ LET popped == heap_pop(frontier)
       IN  /\ popped.item.item = point_to_index(to, width)
           /\ to_cost' = popped.item.cost
           /\ frontier' = popped.data
    /\ current' = point_to_index(to, width)
    /\ pc' = "reconstruct"
    /\ UNCHANGED <<width, height, walkable, from, to, came_from, costs, path, result>>
    /\ UNCHANGED <<fvars, lvars, gvars, mvars>>

\* frontier.pop() gives another cell: its neighbours are visited.
PopExpand ==
    /\ pc = "search"
    /\ frontier # <<>>
    /\ LET popped == heap_pop(frontier)
           st == expand([frontier |-> frontier, came_from |-> came_from, costs |-> costs],
                        popped, width, height, walkable, to)
       IN  /\ popped.item.item # point_to_index(to, width)
           /\ frontier' = st.frontier
           /\ came_from' = st.came_from
           /\ costs' = st.costs
    /\ UNCHANGED <<width, height, walkable, from, to, to_cost, current, path, result, pc>>
    /\ UNCHANGED <<fvars, lvars, gvars, mvars>>

\* frontier.pop() gives None: the loop ends.
PopNone ==
    /\ pc = "search"
    /\ frontier = <<>>
    /\ current' = point_to_index(to, width)
    /\ pc' = "reconstruct"
    /\ UNCHANGED <<width, height, walkable, from, to, frontier, came_from, costs,
                   to_cost, path, result>>
    /\ UNCHANGED <<fvars, lvars, gvars, mvars>>

\* reconstruct_path: one iteration of the loop that follows came_from.
ReconstructFollow ==
    /\ pc = "reconstruct"
    /\ current # point_to_index(from, width)
    /\ current \in DOMAIN came_from
    /\ came_from[current] # None
    /\ path' = Append(path, current)
    /\ current' = came_from[current]
    /\ UNCHANGED <<width, height, walkable, from, to, frontier, came_from, costs,
                   to_cost, result, pc>>
    /\ UNCHANGED <<fvars, lvars, gvars, mvars>>

\* reconstruct_path: no predecessor is recorded, return None.
ReconstructNone ==
    /\ pc = "reconstruct"
    /\ current # point_to_index(from, width)
    /\ current \in DOMAIN came_from
    /\ came_from[current] = None
    /\ path' = Append(path, current)
    /\ result' = NoPath
    /\ pc' = "done"
    /\ UNCHANGED <<width, height, walkable, from, to, frontier, came_from, costs,
                   to_cost, current>>
    /\ UNCHANGED <<fvars, lvars, gvars, mvars>>

\* A reconstruct_path that forgets path.push(target_index).
ReconstructSome_no_push ==
    /\ pc = "reconstruct"
    /\ current = point_to_index(from, width)
    /\ path' = path
    /\ result' = SomePath(Reverse([i \in 1..Len(path) |-> index_to_point(path[i], width)]))
    /\ pc' = "done"
    /\ UNCHANGED <<width, height, walkable, from, to, frontier, came_from, costs,
                   to_cost, current>>
    /\ UNCHANGED <<fvars, lvars, gvars, mvars>>

\* reconstruct_path: the origin is reached, return the reversed path.
ReconstructSome ==
    /\ pc = "reconstruct"
    /\ current = point_to_index(from, width)
    /\ path' = Append(path, current)
    /\ result' = SomePath(Reverse([i \in 1..Len(path') |-> index_to_point(path'[i], width)]))
    /\ pc' = "done"
    /\ UNCHANGED <<width, height, walkable, from, to, frontier, came_from, costs,
                   to_cost, current>>
    /\ UNCHANGED <<fvars, lvars, gvars, mvars>>

Next ==
    \/ PopDestination
    \/ PopExpand
    \/ PopNone
    \/ ReconstructFollow
    \/ ReconstructNone
    \/ ReconstructSome

Spec == Init /\ [][Next]_vars

\* astar_path as one step: the call returns.  The locals of reconstruct_path
\* are gone when it does.
AStarCall ==
    /\ pc = "search"
    /\ \E s \in {search_end(width, height, walkable, from, to)} :
           /\ frontier' = s.st.frontier
           /\ came_from' = s.st.came_from
           /\ costs' = s.st.costs
           /\ to_cost' = s.to_cost
           /\ result' = reconstruct_path(from, to, s.st.came_from, width)
    /\ pc' = "done"
    /\ UNCHANGED <<width, height, walkable, from, to, current, path>>
    /\ UNCHANGED <<fvars, lvars, gvars, mvars>>

\* The searches of Spec and the search of the long map, each as one call.
InitCall == (InitGrids \/ InitTests \/ InitLong) /\ FovIdle /\ LineIdle /\ GraphIdle /\ FovMapIdle

SpecCall == InitCall /\ [][AStarCall]_vars

(***************************************************************************)
(* fov.rs: field_of_view.  The map is its width, its height and opaque, a  *)
(* function of the index x + y * width as in tests::SampleMap.  visibles   *)
(* is the buffer of the clipped window, a function of x + y * sub_width.   *)
(***************************************************************************)
is_bounded(w, h, x, y) == x < 0 \/ y < 0 \/ x >= w \/ y >= h

is_opaque(op, w, x, y) == op[x + y * w]

Max(a, b) == IF a >= b THEN a ELSE b

Min(a, b) == IF a <= b THEN a ELSE b

\* minx, miny, maxx, maxy of field_of_view.
window(w, h, x, y, r) ==
    [minx |-> Max(x - r, 0), miny |-> Max(y - r, 0),
     maxx |-> Min(x + r, w - 1), maxy |-> Min(y + r, h - 1)]

\* A buffer in which the origin is not set.
visibles_start_all_false(win, x, y) ==
    LET sub_width == win.maxx - win.minx + 1
        sub_height == win.maxy - win.miny + 1
    IN  [i \in 0..(sub_width * sub_height - 1) |-> FALSE]

\* The buffer field_of_view allocates, the origin set.
visibles_start(win, x, y) ==
    LET sub_width == win.maxx - win.minx + 1
        sub_height == win.maxy - win.miny + 1
    IN  [[i \in 0..(sub_width * sub_height - 1) |-> FALSE]
            EXCEPT ![(x - win.minx) + (y - win.miny) * sub_width] = TRUE]

\* The destinations of the calls of cast_ray, in the order of the calls.
ray_destinations(win) ==
    LET nx == win.maxx - win.minx + 1
        ny == Max(win.maxy - win.miny - 1, 0)
        top == win.maxy - win.miny
        right == win.maxx - win.minx
    IN  [i \in 1..(2 * nx) |->
            IF i % 2 = 1 THEN <<(i - 1) \div 2, 0>> ELSE <<(i - 1) \div 2, top>>]
        \o
        [i \in 1..(2 * ny) |->
            IF i % 2 = 1 THEN <<0, 1 + (i - 1) \div 2>> ELSE <<right, 1 + (i - 1) \div 2>>]

\* The arguments of the four calls of post_process_vision: SE, SW, NW, NE.
quadrant_passes(win, x, y) ==
    LET ox == win.minx
        oy == win.miny
    IN  << [minx |-> x - ox + 1, miny |-> y - oy + 1,
            maxx |-> win.maxx - ox, maxy |-> win.maxy - oy, dx |-> -1, dy |-> -1],
           [minx |-> win.minx - ox, miny |-> y - oy + 1,
            maxx |-> x - ox - 1, maxy |-> win.maxy - oy, dx |-> 1, dy |-> -1],
           [minx |-> win.minx - ox, miny |-> win.miny - oy,
            maxx |-> x - ox - 1, maxy |-> y - oy - 1, dx |-> 1, dy |-> 1],
           [minx |-> x - ox + 1, miny |-> win.miny - oy,
            maxx |-> win.maxx - ox, maxy |-> y - oy - 1, dx |-> -1, dy |-> 1] >>

\* A cast_ray that lights every cell of the ray, whatever its distance.
RECURSIVE cast_ray_any_distance(_, _, _, _, _, _, _, _, _, _)
cast_ray_any_distance(op, w, vis, sub_width, orig, pts, k, radius_square, offset_x, offset_y) ==
    IF k > Len(pts) \/ DOMAIN vis = {}
    THEN vis
    ELSE LET x == pts[k][1]
             y == pts[k][2]
             lit == [vis EXCEPT ![x + y * sub_width] = TRUE]
         IN  IF is_opaque(op, w, x + offset_x, y + offset_y)
             THEN lit
             ELSE cast_ray_any_distance(op, w, lit, sub_width, orig, pts, k + 1,
                                        radius_square, offset_x, offset_y)

\* A cast_ray that no opaque cell stops.
RECURSIVE cast_ray_through_walls(_, _, _, _, _, _, _, _, _, _)
cast_ray_through_walls(op, w, vis, sub_width, orig, pts, k, radius_square, offset_x, offset_y) ==
    IF k > Len(pts) \/ DOMAIN vis = {}
    THEN vis
    ELSE LET x == pts[k][1]
             y == pts[k][2]
             distance == (x - orig[1]) ^ 2 + (y - orig[2]) ^ 2
         IN  cast_ray_through_walls(op, w,
                 IF distance <= radius_square \/ radius_square = 0
                 THEN [vis EXCEPT ![x + y * sub_width] = TRUE]
                 ELSE vis,
                 sub_width, orig, pts, k + 1, radius_square, offset_x, offset_y)

\* A cast_ray that returns at an opaque cell before it lights it.
RECURSIVE cast_ray_stop_before(_, _, _, _, _, _, _, _, _, _)
cast_ray_stop_before(op, w, vis, sub_width, orig, pts, k, radius_square, offset_x, offset_y) ==
    IF k > Len(pts) \/ DOMAIN vis = {}
    THEN vis
    ELSE LET x == pts[k][1]
             y == pts[k][2]
             distance == (x - orig[1]) ^ 2 + (y - orig[2]) ^ 2
         IN  IF is_opaque(op, w, x + offset_x, y + offset_y)
             THEN vis
             ELSE cast_ray_stop_before(op, w,
                      IF distance <= radius_square \/ radius_square = 0
                      THEN [vis EXCEPT ![x + y * sub_width] = TRUE]
                      ELSE vis,
                      sub_width, orig, pts, k + 1, radius_square, offset_x, offset_y)

\* The loop of cast_ray from the k-th point of the line.  (As in
\* post_process_loop, reading the domain of vis evaluates the buffer first.)
RECURSIVE cast_ray_loop(_, _, _, _, _, _, _, _, _, _)
cast_ray_loop(op, w, vis, sub_width, orig, pts, k, radius_square, offset_x, offset_y) ==
    IF k > Len(pts) \/ DOMAIN vis = {}
    THEN vis
    ELSE LET x == pts[k][1]
             y == pts[k][2]
             distance == (x - orig[1]) ^ 2 + (y - orig[2]) ^ 2
             lit == IF distance <= radius_square \/ radius_square = 0
                    THEN [vis EXCEPT ![x + y * sub_width] = TRUE]
                    ELSE vis
         IN  IF is_opaque(op, w, x + offset_x, y + offset_y)
             THEN lit
             ELSE cast_ray_loop(op, w, lit, sub_width, orig, pts, k + 1,
                                radius_square, offset_x, offset_y)

\* cast_ray: the line from origin to destination, its first point skipped.
cast_ray(op, w, vis, sub_width, orig, destination, radius_square, offset_x, offset_y) ==
    cast_ray_loop(op, w, vis, sub_width, orig,
                  LineBresenham_collect(LineBresenham_new(orig, destination)), 2,
                  radius_square, offset_x, offset_y)

\* A pass that reads only the neighbour along x.
post_process_cell_x_only(op, w, vis, sub_width, x, y, dx, dy, offset_x, offset_y) ==
    LET index == x + y * sub_width
    IN  IF /\ is_opaque(op, w, x + offset_x, y + offset_y) /\ ~vis[index]
           /\ ~is_opaque(op, w, x + dx + offset_x, y + offset_y)
           /\ vis[(x + dx) + y * sub_width]
        THEN [vis EXCEPT ![index] = TRUE]
        ELSE vis

\* The body of the loops of post_process_vision for the cell (x, y).
post_process_cell(op, w, vis, sub_width, x, y, dx, dy, offset_x, offset_y) ==
    LET index == x + y * sub_width
    IN  IF is_opaque(op, w, x + offset_x, y + offset_y) /\ ~vis[index]
        THEN LET neighboor_x == x + dx
                 neighboor_y == y + dy
                 index_0 == neighboor_x + y * sub_width
                 index_1 == x + neighboor_y * sub_width
             IN  IF \/ (~is_opaque(op, w, neighboor_x + offset_x, y + offset_y) /\ vis[index_0])
                    \/ (~is_opaque(op, w, x + offset_x, neighboor_y + offset_y) /\ vis[index_1])
                 THEN [vis EXCEPT ![index] = TRUE]
                 ELSE vis
        ELSE vis

\* The loops of post_process_vision from their n-th iteration: x is the
\* outer loop, y the inner one.  (Reading the domain of vis evaluates the
\* buffer before the next iteration; a buffer is never empty.)
RECURSIVE post_process_loop(_, _, _, _, _, _, _, _)
post_process_loop(op, w, vis, sub_width, q, n, offset_x, offset_y) ==
    LET nx == Max(q.maxx - q.minx + 1, 0)
        ny == Max(q.maxy - q.miny + 1, 0)
    IN  IF n >= nx * ny \/ DOMAIN vis = {}
        THEN vis
        ELSE post_process_loop(op, w,
                 post_process_cell(op, w, vis, sub_width, q.minx + (n \div ny),
                                   q.miny + (n % ny), q.dx, q.dy, offset_x, offset_y),
                 sub_width, q, n + 1, offset_x, offset_y)

post_process_vision(op, w, vis, sub_width, q, offset_x, offset_y) ==
    post_process_loop(op, w, vis, sub_width, q, 0, offset_x, offset_y)

\* Lines 164-174 without the offsets.
collect_visibles_no_offset(vis, sub_width, offset_x, offset_y) ==
    LET n == Cardinality(DOMAIN vis)
        indexes == SelectSeq([i \in 1..n |-> i - 1], LAMBDA i : vis[i])
    IN  [k \in 1..Len(indexes) |-> <<indexes[k] % sub_width, indexes[k] \div sub_width>>]

\* Lines 164-174: the points of the visible cells, by increasing index.
collect_visibles(vis, sub_width, offset_x, offset_y) ==
    LET n == Cardinality(DOMAIN vis)
        indexes == SelectSeq([i \in 1..n |-> i - 1], LAMBDA i : vis[i])
    IN  [k \in 1..Len(indexes) |->
            <<(indexes[k] % sub_width) + offset_x, (indexes[k] \div sub_width) + offset_y>>]

\* A filter that keeps every point.
filter_walls_keep_all(points, op, w, keep_walls) == points

\* Lines 176-183.
filter_walls(points, op, w, keep_walls) ==
    IF ~keep_walls
    THEN SelectSeq(points, LAMBDA p : ~is_opaque(op, w, p[1], p[2]))
    ELSE points

\* The loops of lines 59-102 from the k-th call of cast_ray.
RECURSIVE cast_rays(_, _, _, _, _, _, _, _, _, _)
cast_rays(op, w, vis, sub_width, orig, dests, k, radius_square, offset_x, offset_y) ==
    IF k > Len(dests) \/ DOMAIN vis = {}
    THEN vis
    ELSE cast_rays(op, w,
                   cast_ray(op, w, vis, sub_width, orig, dests[k], radius_square,
                            offset_x, offset_y),
                   sub_width, orig, dests, k + 1, radius_square, offset_x, offset_y)

\* Lines 104-162 from the k-th call of post_process_vision.
RECURSIVE post_process_all(_, _, _, _, _, _, _, _)
post_process_all(op, w, vis, sub_width, qs, k, offset_x, offset_y) ==
    IF k > Len(qs) \/ DOMAIN vis = {}
    THEN vis
    ELSE post_process_all(op, w,
                          post_process_vision(op, w, vis, sub_width, qs[k], offset_x, offset_y),
                          sub_width, qs, k + 1, offset_x, offset_y)

\* field_of_view as a function of its arguments, (x, y) on the map.
field_of_view(op, w, h, x, y, r, walls) ==
    IF r < 1
    THEN << <<x, y>> >>
    ELSE LET win == window(w, h, x, y, r)
         IN  IF win.maxx - win.minx = 0 \/ win.maxy - win.miny = 0
             THEN <<>>
             ELSE LET sub_width == win.maxx - win.minx + 1
                      seen == cast_rays(op, w, visibles_start(win, x, y), sub_width,
                                        <<x - win.minx, y - win.miny>>,
                                        ray_destinations(win), 1, r ^ 2,
                                        win.minx, win.miny)
                      lit == post_process_all(op, w, seen, sub_width,
                                              quadrant_passes(win, x, y), 1,
                                              win.minx, win.miny)
                  IN  filter_walls(collect_visibles(lit, sub_width, win.minx, win.miny),
                                   op, w, walls)

(***************************************************************************)
(* field_of_view as a state machine: one step per call of cast_ray and of  *)
(* post_process_vision.                                                    *)
(***************************************************************************)
MaxRadius == 2

\* The path search's variables while a field of view is computed.
AStarIdle ==
    /\ width = 0
    /\ height = 0
    /\ walkable = <<>>
    /\ from = <<0, 0>>
    /\ to = <<0, 0>>
    /\ frontier = <<>>
    /\ came_from = <<>>
    /\ costs = <<>>
    /\ to_cost = F32FromInt(0)
    /\ current = None
    /\ path = <<>>
    /\ result = NoPath
    /\ pc = "idle"

\* The maps with at most walls opaque cells.
OpaqueMaps(w, h, walls) ==
    {m \in [0..(w * h - 1) -> BOOLEAN] :
        Cardinality({i \in 0..(w * h - 1) : m[i]}) <= walls}

FovStart(w, h, op, x, y, r, walls) ==
    /\ fwidth = w
    /\ fheight = h
    /\ opaque = op
    /\ origin = <<x, y>>
    /\ radius = r
    /\ include_walls = walls
    /\ visibles = <<>>
    /\ rays = <<>>
    /\ quadrants = <<>>
    /\ fov = <<>>
    /\ fpc = "start"

\* The map of tests::fov_with_sample_map, its origin and its radius.
FovTestSize == 10

FovTestMap ==
    [i \in 0..(FovTestSize * FovTestSize - 1) |->
        \/ (i \div FovTestSize = 3 /\ i % FovTestSize >= 1)
        \/ i % FovTestSize = 9]

FovTestOrigin == <<3, 2>>

FovTestRadius == 10

\* Every map of the bounded sizes, with every origin on the map or one cell
\* off it, every radius from -1 to MaxRadius, with and without walls.
InitFovGrids ==
    \E w \in 1..MaxWidth, h \in 1..MaxHeight :
        \E op \in OpaqueMaps(w, h, MaxWalls), x \in -1..w, y \in -1..h,
           r \in -1..MaxRadius, walls \in BOOLEAN :
            FovStart(w, h, op, x, y, r, walls)

InitFovTests ==
    \E walls \in BOOLEAN :
        FovStart(FovTestSize, FovTestSize, FovTestMap,
                 FovTestOrigin[1], FovTestOrigin[2], FovTestRadius, walls)

InitFov == AStarIdle /\ LineIdle /\ GraphIdle /\ FovMapIdle /\ (InitFovGrids \/ InitFovTests)

FovWindow == window(fwidth, fheight, origin[1], origin[2], radius)

\* assert_in_bounds panics.
FovPanic ==
    /\ fpc = "start"
    /\ is_bounded(fwidth, fheight, origin[1], origin[2])
    /\ fpc' = "panicked"
    /\ UNCHANGED <<opaque, fwidth, fheight, origin, radius, include_walls, visibles,
                   rays, quadrants, fov>>
    /\ UNCHANGED <<avars, lvars, gvars, mvars>>

\* A radius < 1 that returns before assert_in_bounds is called.
FovSingleton_unchecked ==
    /\ fpc = "start"
    /\ radius < 1
    /\ fov' = <<origin>>
    /\ fpc' = "done"
    /\ UNCHANGED <<opaque, fwidth, fheight, origin, radius, include_walls, visibles,
                   rays, quadrants>>
    /\ UNCHANGED <<avars, lvars, gvars, mvars>>

\* A radius < 1 that returns the origin only if the filter keeps it.
FovSingleton_filtered ==
    /\ fpc = "start"
    /\ ~is_bounded(fwidth, fheight, origin[1], origin[2])
    /\ radius < 1
    /\ fov' = filter_walls(<<origin>>, opaque, fwidth, include_walls)
    /\ fpc' = "done"
    /\ UNCHANGED <<opaque, fwidth, fheight, origin, radius, include_walls, visibles,
                   rays, quadrants>>
    /\ UNCHANGED <<avars, lvars, gvars, mvars>>

\* radius < 1: return vec![(x, y)].
FovSingleton ==
    /\ fpc = "start"
    /\ ~is_bounded(fwidth, fheight, origin[1], origin[2])
    /\ radius < 1
    /\ fov' = <<origin>>
    /\ fpc' = "done"
    /\ UNCHANGED <<opaque, fwidth, fheight, origin, radius, include_walls, visibles,
                   rays, quadrants>>
    /\ UNCHANGED <<avars, lvars, gvars, mvars>>

\* A window without area in which the origin is still returned.
FovNoArea_origin ==
    /\ fpc = "start"
    /\ ~is_bounded(fwidth, fheight, origin[1], origin[2])
    /\ radius >= 1
    /\ FovWindow.maxx - FovWindow.minx = 0 \/ FovWindow.maxy - FovWindow.miny = 0
    /\ fov' = <<origin>>
    /\ fpc' = "done"
    /\ UNCHANGED <<opaque, fwidth, fheight, origin, radius, include_walls, visibles,
                   rays, quadrants>>
    /\ UNCHANGED <<avars, lvars, gvars, mvars>>

\* The window has no area: return vec![].
FovNoArea ==
    /\ fpc = "start"
    /\ ~is_bounded(fwidth, fheight, origin[1], origin[2])
    /\ radius >= 1
    /\ FovWindow.maxx - FovWindow.minx = 0 \/ FovWindow.maxy - FovWindow.miny = 0
    /\ fov' = <<>>
    /\ fpc' = "done"
    /\ UNCHANGED <<opaque, fwidth, fheight, origin, radius, include_walls, visibles,
                   rays, quadrants>>
    /\ UNCHANGED <<avars, lvars, gvars, mvars>>

\* The buffer is allocated and the origin set visible (lines 51-57).
FovBegin ==
    /\ fpc = "start"
    /\ ~is_bounded(fwidth, fheight, origin[1], origin[2])
    /\ radius >= 1
    /\ ~(FovWindow.maxx - FovWindow.minx = 0 \/ FovWindow.maxy - FovWindow.miny = 0)
    /\ visibles' = visibles_start(FovWindow, origin[1], origin[2])
    /\ rays' = ray_destinations(FovWindow)
    /\ quadrants' = quadrant_passes(FovWindow, origin[1], origin[2])
    /\ fpc' = "rays"
    /\ UNCHANGED <<opaque, fwidth, fheight, origin, radius, include_walls, fov>>
    /\ UNCHANGED <<avars, lvars, gvars, mvars>>

\* One call of cast_ray of the loops of lines 59-102.
FovCastRay ==
    /\ fpc = "rays"
    /\ rays # <<>>
    /\ visibles' = cast_ray(opaque, fwidth, visibles,
                            FovWindow.maxx - FovWindow.minx + 1,
                            <<origin[1] - FovWindow.minx, origin[2] - FovWindow.miny>>,
                            Head(rays), radius ^ 2, FovWindow.minx, FovWindow.miny)
    /\ rays' = Tail(rays)
    /\ fpc' = IF Tail(rays) = <<>> THEN "post" ELSE "rays"
    /\ UNCHANGED <<opaque, fwidth, fheight, origin, radius, include_walls, quadrants, fov>>
    /\ UNCHANGED <<avars, lvars, gvars, mvars>>

\* One call of post_process_vision of lines 104-162.
FovPostProcess ==
    /\ fpc = "post"
    /\ quadrants # <<>>
    /\ visibles' = post_process_vision(opaque, fwidth, visibles,
                                       FovWindow.maxx - FovWindow.minx + 1,
                                       Head(quadrants), FovWindow.minx, FovWindow.miny)
    /\ quadrants' = Tail(quadrants)
    /\ fpc' = IF Tail(quadrants) = <<>> THEN "collect" ELSE "post"
    /\ UNCHANGED <<opaque, fwidth, fheight, origin, radius, include_walls, rays, fov>>
    /\ UNCHANGED <<avars, lvars, gvars, mvars>>

\* The visible cells are collected and filtered (lines 164-183).
FovCollect ==
    /\ fpc = "collect"
    /\ fov' = filter_walls(collect_visibles(visibles, FovWindow.maxx - FovWindow.minx + 1,
                                            FovWindow.minx, FovWindow.miny),
                           opaque, fwidth, include_walls)
    /\ fpc' = "done"
    /\ UNCHANGED <<opaque, fwidth, fheight, origin, radius, include_walls, visibles,
                   rays, quadrants>>
    /\ UNCHANGED <<avars, lvars, gvars, mvars>>

NextFov ==
    \/ FovPanic
    \/ FovSingleton
    \/ FovNoArea
    \/ FovBegin
    \/ FovCastRay
    \/ FovPostProcess
    \/ FovCollect

SpecFov == InitFov /\ [][NextFov]_vars

(***************************************************************************)
(* field_of_view on a wider map, seen from its first cell with a radius    *)
(* that spans it and the walls included: the origin is on the map, the     *)
(* radius >= 1 and the window has an area, so that the call neither panics *)
(* nor returns early.                                                      *)
(***************************************************************************)
WideWidth == 7
WideHeight == 5

\* The sets of at most k of the indexes 0..n-1.
RECURSIVE WallSets(_, _)
WallSets(n, k) ==
    IF k = 0
    THEN {{}}
    ELSE LET fewer == WallSets(n, k - 1)
         IN  fewer \cup {ws \cup {i} : ws \in fewer, i \in 0..(n - 1)}

\* OpaqueMaps, built from the sets of walls.
WideMaps(w, h, walls) ==
    {[i \in 0..(w * h - 1) |-> i \in ws] : ws \in WallSets(w * h, walls)}

InitFovWide ==
    /\ \E op \in WideMaps(WideWidth, WideHeight, MaxWalls) :
          FovStart(WideWidth, WideHeight, op, 0, 0, Max(WideWidth, WideHeight), TRUE)
    /\ AStarIdle /\ LineIdle /\ GraphIdle /\ FovMapIdle

NextFovWide ==
    \/ FovBegin
    \/ FovCastRay
    \/ FovPostProcess
    \/ FovCollect

SpecFovWide == InitFovWide /\ [][NextFovWide]_vars

(***************************************************************************)
(* astar_path called with any two points, on the map or next to it.  An    *)
(* index is `(x + y * width) as usize`: a negative sum is cast to a usize  *)
(* above every length, so that here an index is in range exactly when it   *)
(* is in the DOMAIN of the arrays.                                         *)
(***************************************************************************)
AnyPoints(w, h) == {<<x, y>> : x \in -1..w, y \in -1..h}

\* astar_path is entered (line 133): nothing is allocated yet.
AStarCalled(w, h, walk, src, dest) ==
    /\ width = w
    /\ height = h
    /\ walkable = walk
    /\ from = src
    /\ to = dest
    /\ frontier = <<>>
    /\ came_from = <<>>
    /\ costs = <<>>
    /\ to_cost = F32FromInt(0)
    /\ current = None
    /\ path = <<>>
    /\ result = NoPath
    /\ pc = "call"

\* Calls where from or to is off the map.
InitOffMap ==
    /\ \E w \in 1..MaxWidth, h \in 1..MaxHeight :
         \E walk \in Maps(w, h, MaxWalls), src \in AnyPoints(w, h), dest \in AnyPoints(w, h) :
            /\ src \notin Points(w, h) \/ dest \notin Points(w, h)
            /\ AStarCalled(w, h, walk, src, dest)
    /\ FovIdle
    /\ LineIdle
    /\ GraphIdle
    /\ FovMapIdle

\* Lines 134-148 when from_index is in range: the frontier and the arrays.
AStarBegin ==
    /\ pc = "call"
    /\ point_to_index(from, width) \in 0..(width * height - 1)
    /\ LET st == search_start(width, height, from)
       IN  /\ frontier' = st.frontier
           /\ came_from' = st.came_from
           /\ costs' = st.costs
    /\ pc' = "search"
    /\ UNCHANGED <<width, height, walkable, from, to, to_cost, current, path, result>>
    /\ UNCHANGED <<fvars, lvars, gvars, mvars>>

\* Line 148 when from_index is out of range: costs[from_index] panics.
AStarPanic ==
    /\ pc = "call"
    /\ point_to_index(from, width) \notin 0..(width * height - 1)
    /\ pc' = "panicked"
    /\ UNCHANGED <<width, height, walkable, from, to, frontier, came_from, costs,
                   to_cost, current, path, result>>
    /\ UNCHANGED <<fvars, lvars, gvars, mvars>>

\* reconstruct_path, line 207, when position is out of range:
\* came_from[position] panics.
ReconstructPanic ==
    /\ pc = "reconstruct"
    /\ current # point_to_index(from, width)
    /\ current \notin DOMAIN came_from
    /\ path' = Append(path, current)
    /\ pc' = "panicked"
    /\ UNCHANGED <<width, height, walkable, from, to, frontier, came_from, costs,
                   to_cost, current, result>>
    /\ UNCHANGED <<fvars, lvars, gvars, mvars>>

NextOffMap ==
    \/ AStarBegin
    \/ AStarPanic
    \/ PopDestination
    \/ PopExpand
    \/ PopNone
    \/ ReconstructFollow
    \/ ReconstructNone
    \/ ReconstructSome
    \/ ReconstructPanic

SpecOffMap == InitOffMap /\ [][NextOffMap]_vars

(***************************************************************************)
(* astar_path on a Graph whose neighboors is not FourWayGridGraph's: it    *)
(* pushes a + steps[k] for every k, on the map or not, walkable or not.    *)
(* dimensions, is_walkable, cost_between and heuristic are those of        *)
(* FourWayGridGraph.  calls records, for every neighbour, the calls that   *)
(* astar_path makes with it: [fn, p].                                      *)
(***************************************************************************)
MaxJump == 2
MaxGraphWalls == 1

\* The steps of a graph that reaches every cell at most jump columns and jump
\* rows away, the cell itself included, row by row.
Offsets(jump) ==
    [k \in 1..((2 * jump + 1) * (2 * jump + 1)) |->
        <<((k - 1) % (2 * jump + 1)) - jump, ((k - 1) \div (2 * jump + 1)) - jump>>]

\* Graph::neighboors of such a graph.
graph_neighboors(offsets, a) ==
    [k \in 1..Len(offsets) |-> <<a[1] + offsets[k][1], a[2] + offsets[k][2]>>]

Call(fn, p) == [fn |-> fn, p |-> p]

\* The calls made by the body of `for &(x, y) in neighboors.iter()` for one
\* neighbour: `||` evaluates is_walkable only when the four comparisons before
\* it are false, and `continue` skips the rest of the body.
visit_calls(st, current_index, next, w, h, walk, dest) ==
    LET x == next[1]
        y == next[2]
    IN  IF x < 0 \/ y < 0 \/ x >= w \/ y >= h
        THEN {}
        ELSE IF ~is_walkable(walk, w, x, y)
        THEN {Call("is_walkable", next)}
        ELSE LET next_index == point_to_index(next, w)
                 new_cost == F32Add(st.costs[current_index],
                                    cost_between(index_to_point(current_index, w), next))
             IN  {Call("is_walkable", next), Call("point_to_index", next),
                  Call("cost_between", next), Call("costs[]", next)}
                 \cup IF st.costs[next_index] = NoCost \/ F32Lt(new_cost, st.costs[next_index])
                      THEN {Call("heuristic", next), Call("frontier.push", next),
                            Call("came_from[]", next)}
                      ELSE {}

\* The for loop on a pair [st, calls]; the pair is read at every iteration,
\* so that it is computed before the next neighbour is visited.
RECURSIVE visit_all_calls(_, _, _, _, _, _, _, _)
visit_all_calls(s, current_index, ns, k, w, h, walk, dest) ==
    IF k > Len(ns) \/ DOMAIN s.st.costs = {} \/ Cardinality(s.calls) < 0
    THEN s
    ELSE visit_all_calls(
             [st |-> visit(s.st, current_index, ns[k], w, h, walk, dest),
              calls |-> s.calls \cup visit_calls(s.st, current_index, ns[k], w, h, walk, dest)],
             current_index, ns, k + 1, w, h, walk, dest)

\* Calls of astar_path with a graph that jumps, and with the steps of
\* FourWayGridGraph.
GraphStart(w, h, walk, src, dest, offsets) ==
    /\ AStarStart(w, h, walk, src, dest)
    /\ steps = offsets
    /\ calls = {}

InitGraphSteps ==
    \E w \in 1..MaxWidth, h \in 1..MaxHeight :
        \E walk \in Maps(w, h, MaxGraphWalls), src \in Points(w, h), dest \in Points(w, h),
           jump \in 1..MaxJump :
            GraphStart(w, h, walk, src, dest, Offsets(jump))

InitGraphFourWay ==
    \E w \in 1..MaxWidth, h \in 1..MaxHeight :
        \E walk \in Maps(w, h, MaxGraphWalls), src \in Points(w, h), dest \in Points(w, h) :
            GraphStart(w, h, walk, src, dest, << <<0, 1>>, <<0, -1>>, <<-1, 0>>, <<1, 0>> >>)

InitGraph == (InitGraphSteps \/ InitGraphFourWay) /\ FovIdle /\ LineIdle /\ FovMapIdle

\* frontier.pop() gives a cell that is not the destination: the graph's
\* neighbours of it are visited.
GraphExpand ==
    /\ pc = "search"
    /\ frontier # <<>>
    /\ heap_pop(frontier).item.item # point_to_index(to, width)
    /\ \E s \in {visit_all_calls(
                    [st |-> [frontier |-> heap_pop(frontier).data,
                             came_from |-> came_from, costs |-> costs],
                     calls |-> calls],
                    heap_pop(frontier).item.item,
                    graph_neighboors(steps, index_to_point(heap_pop(frontier).item.item,
                                                           width)),
                    1, width, height, walkable, to)} :
           /\ frontier' = s.st.frontier
           /\ came_from' = s.st.came_from
           /\ costs' = s.st.costs
           /\ calls' = s.calls
    /\ UNCHANGED <<width, height, walkable, from, to, to_cost, current, path, result, pc,
                   steps>>
    /\ UNCHANGED <<fvars, lvars, mvars>>

NextGraph ==
    \/ PopDestination
    \/ GraphExpand
    \/ PopNone
    \/ ReconstructFollow
    \/ ReconstructNone
    \/ ReconstructSome

SpecGraph == InitGraph /\ [][NextGraph]_vars

(***************************************************************************)
(* FovMap of the field_of_vision crate: new and set_transparent.  A        *)
(* negative length cast `as usize` is above isize::MAX, which vec! refuses *)
(* with the panic "capacity overflow".                                     *)
(***************************************************************************)
MsgDimensions(w, h) ==
    "Width and height should be > 0, got (" \o ToString(w) \o "," \o ToString(h) \o ")"
MsgCapacity == "capacity overflow"
MsgBounds(w, h, x, y) ==
    "(x, y) should be between (0,0) and (" \o ToString(w) \o ", " \o ToString(h)
        \o "), got (" \o ToString(x) \o ", " \o ToString(y) \o ")"

\* FovMap::new(w, h) is called.
FovMapCalled(w, h) ==
    /\ mwidth = w
    /\ mheight = h
    /\ transparent = <<>>
    /\ vision = <<>>
    /\ last_origin = <<-1, -1>>
    /\ last_radius = 0
    /\ mpc = "new"
    /\ mmsg = ""

InitFovMap ==
    /\ \E w \in -1..MaxWidth, h \in -1..MaxHeight : FovMapCalled(w, h)
    /\ AStarIdle /\ FovIdle /\ LineIdle /\ GraphIdle

\* new, lines 23-28: the panic of the dimensions test.
FovMapNewPanic ==
    /\ mpc = "new"
    /\ mwidth <= 0 /\ mheight <= 0
    /\ mpc' = "panicked"
    /\ mmsg' = MsgDimensions(mwidth, mheight)
    /\ UNCHANGED <<mwidth, mheight, transparent, vision, last_origin, last_radius>>
    /\ UNCHANGED <<avars, fvars, lvars, gvars>>

\* new, line 30: vec![true; (width * height) as usize] with a negative
\* product.
FovMapNewOverflow ==
    /\ mpc = "new"
    /\ ~(mwidth <= 0 /\ mheight <= 0)
    /\ mwidth * mheight < 0
    /\ mpc' = "panicked"
    /\ mmsg' = MsgCapacity
    /\ UNCHANGED <<mwidth, mheight, transparent, vision, last_origin, last_radius>>
    /\ UNCHANGED <<avars, fvars, lvars, gvars>>

\* new, lines 29-35: the FovMap is returned.
FovMapNew ==
    /\ mpc = "new"
    /\ ~(mwidth <= 0 /\ mheight <= 0)
    /\ mwidth * mheight >= 0
    /\ transparent' = [i \in 0..(mwidth * mheight - 1) |-> TRUE]
    /\ vision' = [i \in 0..(mwidth * mheight - 1) |-> FALSE]
    /\ last_origin' = <<-1, -1>>
    /\ last_radius' = 0
    /\ mpc' = "built"
    /\ UNCHANGED <<mwidth, mheight, mmsg>>
    /\ UNCHANGED <<avars, fvars, lvars, gvars>>

\* FovMap::assert_in_bounds panics.
fovmap_out_of_bounds(x, y) == x < 0 \/ y < 0 \/ x >= mwidth \/ y >= mheight

\* FovMap::index.
fovmap_index(x, y) == x + y * mwidth

\* set_transparent(x, y, is_transparent) on a cell of the map.
SetTransparent ==
    /\ mpc = "built"
    /\ \E x \in -1..mwidth, y \in -1..mheight, is_transparent \in BOOLEAN :
          /\ ~fovmap_out_of_bounds(x, y)
          /\ transparent' = [transparent EXCEPT ![fovmap_index(x, y)] = is_transparent]
    /\ UNCHANGED <<mwidth, mheight, vision, last_origin, last_radius, mpc, mmsg>>
    /\ UNCHANGED <<avars, fvars, lvars, gvars>>

\* set_transparent(x, y, is_transparent) off the map: assert_in_bounds panics.
SetTransparentPanic ==
    /\ mpc = "built"
    /\ \E x \in -1..mwidth, y \in -1..mheight :
          /\ fovmap_out_of_bounds(x, y)
          /\ mmsg' = MsgBounds(mwidth, mheight, x, y)
    /\ mpc' = "panicked"
    /\ UNCHANGED <<mwidth, mheight, transparent, vision, last_origin, last_radius>>
    /\ UNCHANGED <<avars, fvars, lvars, gvars>>

NextFovMap ==
    \/ FovMapNewPanic
    \/ FovMapNewOverflow
    \/ FovMapNew
    \/ SetTransparent
    \/ SetTransparentPanic

SpecFovMap == InitFovMap /\ [][NextFovMap]_vars

(***************************************************************************)
(* LineBresenham as a state machine: one step per call of next().          *)
(***************************************************************************)
MaxCoord == 3

\* A size_hint that counts along the minor axis.
LineBresenham_size_hint_minor(it) == it.dy + 1

\* Iterator::size_hint, and ExactSizeIterator::len which returns its lower
\* bound.
LineBresenham_size_hint(it) == it.dx + 1

LineStart(start, end) ==
    /\ line_start = start
    /\ line_end = end
    /\ line_it = LineBresenham_new(start, end)
    /\ line_len = LineBresenham_size_hint(LineBresenham_new(start, end))
    /\ yielded = <<>>
    /\ lpc = "iterate"

\* The lines of tests::test_wp_example, test_inverse_wp, test_straight_hline
\* and test_straight_vline.
LineTests ==
    { << <<0, 1>>, <<6, 4>> >>, << <<6, 4>>, <<0, 1>> >>,
      << <<2, 3>>, <<5, 3>> >>, << <<2, 3>>, <<2, 6>> >> }

\* Every line between two points with coordinates of at most MaxCoord in
\* absolute value, and the lines of the tests.
InitLineGrid ==
    \E x0 \in -MaxCoord..MaxCoord, y0 \in -MaxCoord..MaxCoord,
       x1 \in -MaxCoord..MaxCoord, y1 \in -MaxCoord..MaxCoord :
        LineStart(<<x0, y0>>, <<x1, y1>>)

InitLineTests == \E t \in LineTests : LineStart(t[1], t[2])

InitLine == AStarIdle /\ FovIdle /\ GraphIdle /\ FovMapIdle /\ (InitLineGrid \/ InitLineTests)

\* next() returns Some(point).
LineNext ==
    /\ lpc = "iterate"
    /\ LineBresenham_next(line_it).some
    /\ yielded' = Append(yielded, LineBresenham_next(line_it).item)
    /\ line_it' = LineBresenham_next(line_it).it
    /\ UNCHANGED <<line_start, line_end, line_len, lpc>>
    /\ UNCHANGED <<avars, fvars, gvars, mvars>>

\* next() returns None: the iteration is over.
LineExhausted ==
    /\ lpc = "iterate"
    /\ ~LineBresenham_next(line_it).some
    /\ lpc' = "done"
    /\ UNCHANGED <<line_start, line_end, line_it, line_len, yielded>>
    /\ UNCHANGED <<avars, fvars, gvars, mvars>>

NextLine == LineNext \/ LineExhausted

SpecLine == InitLine /\ [][NextLine]_vars

(***************************************************************************)
(* Properties of astar_path.                                               *)
(***************************************************************************)
InBounds(p, w, h) == p[1] >= 0 /\ p[2] >= 0 /\ p[1] < w /\ p[2] < h

Adjacent4(a, b) == Abs(a[1] - b[1]) + Abs(a[2] - b[2]) = 1

Manhattan(a, b) == Abs(a[1] - b[1]) + Abs(a[2] - b[2])

Returned == pc = "done"

\* The walkable in-bounds cells 4-adjacent to a cell of S.
Around(S, w, h, walk) ==
    {q \in UNION {{<<p[1], p[2] + 1>>, <<p[1], p[2] - 1>>,
                   <<p[1] - 1, p[2]>>, <<p[1] + 1, p[2]>>} : p \in S} :
        InBounds(q, w, h) /\ walk[point_to_index(q, w)]}

\* The cells a walk of 4-adjacent walkable in-bounds cells can reach from
\* the cells of layer, seen being the cells already reached.
RECURSIVE Closure(_, _, _, _, _)
Closure(layer, seen, w, h, walk) ==
    LET new == Around(layer, w, h, walk) \ seen
    IN  IF new = {} THEN seen ELSE Closure(new, seen \cup new, w, h, walk)

Reachable(w, h, walk, src, dest) == dest \in Closure({src}, {src}, w, h, walk)

\* Breadth-first search from src: layer holds the cells d steps away, seen
\* the cells at most d steps away; steps becomes the number of steps of a
\* shortest walk to dest, or None when the cells run out.
BfsStart(src) ==
    [layer |-> {src}, seen |-> {src}, d |-> 0, done |-> FALSE, steps |-> None]

BfsStep(b, w, h, walk, dest) ==
    IF b.done
    THEN b
    ELSE IF dest \in b.layer
    THEN [b EXCEPT !.done = TRUE, !.steps = b.d]
    ELSE LET nxt == {q : q \in Around(b.layer, w, h, walk) \ b.seen}
         IN  IF nxt = {}
             THEN [b EXCEPT !.done = TRUE]
             ELSE [layer |-> nxt, seen |-> {q : q \in b.seen \cup nxt},
                   d |-> b.d + 1, done |-> FALSE, steps |-> None]

\* k steps of the search, halving k so that long walks nest only a little.
RECURSIVE BfsRun(_, _, _, _, _, _)
BfsRun(b, k, w, h, walk, dest) ==
    IF b.done \/ k = 0 THEN b
    ELSE IF k = 1 THEN BfsStep(b, w, h, walk, dest)
    ELSE LET half == BfsRun(b, k \div 2, w, h, walk, dest)
         IN  BfsRun(half, k - (k \div 2), w, h, walk, dest)

\* A walk visits no cell twice, so width * height steps end the search.
ShortestSteps ==
    BfsRun(BfsStart(from), width * height + 1, width, height, walkable, to).steps

PathShape(p) ==
    /\ Len(p) >= 1
    /\ p[1] = from
    /\ p[Len(p)] = to
    /\ \A i \in 1..(Len(p) - 1) : Adjacent4(p[i], p[i + 1])

WalkableAt(p) ==
    InBounds(p, width, height) /\ is_walkable(walkable, width, p[1], p[2])

\* C1 as stated: a returned path starts at from, ends at to, steps between
\* 4-neighbours and every element of it, the first included, is walkable.
C1_PathAllWalkable ==
    (Returned /\ result.some) =>
        /\ PathShape(result.path)
        /\ \A i \in 1..Len(result.path) : WalkableAt(result.path[i])

\* C1 amended: a returned path starts at from, ends at to, steps between
\* 4-neighbours and every element after the first is walkable (from itself
\* is never tested).
C1_PathValid ==
    (Returned /\ result.some) =>
        /\ PathShape(result.path)
        /\ \A i \in 2..Len(result.path) : WalkableAt(result.path[i])

\* A path of several steps was returned from an origin that is not walkable.
C1_Witness ==
    /\ Returned /\ result.some
    /\ Len(result.path) >= 3
    /\ ~WalkableAt(from)

\* C2: astar_path returns None if and only if to is unreachable from from.
C2_NoneIffUnreachable ==
    Returned => (~result.some <=> ~Reachable(width, height, walkable, from, to))

\* The map of the claim's example: walls (3,3)-(3,6), (0,3)-(3,3), (0,6)-(3,6).
C2_Map ==
    [i \in 0..99 |->
        LET q == <<i % 10, i \div 10>>
        IN  ~ \/ (q[1] = 3 /\ q[2] \in 3..6)
              \/ (q[1] \in 0..3 /\ q[2] = 3)
              \/ (q[1] \in 0..3 /\ q[2] = 6)]

\* None was returned on the claim's example, whose destination is walkable.
C2_Witness ==
    /\ Returned /\ ~result.some
    /\ width = 10 /\ height = 10 /\ walkable = C2_Map
    /\ from = <<0, 4>> /\ to = <<5, 4>>

\* C3 as stated: a returned path has as many steps as a shortest
\* 4-connected walkable route from from to to.
C3_ShortestPath ==
    (Returned /\ result.some) => Len(result.path) - 1 = ShortestSteps

\* C3 amended: a returned path has as many steps as a shortest route when
\* that route has at most 1000 steps, so that the nudges along it add up to
\* less than the two steps a longer route costs.
C3_ShortestPathUpTo1000 ==
    (Returned /\ result.some /\ ShortestSteps <= 1000) =>
        Len(result.path) - 1 = ShortestSteps

\* A returned path that has to go around walls: it is longer than the
\* Manhattan distance, and costs were nudged on the way.
C3_Witness ==
    /\ Returned /\ result.some
    /\ Len(result.path) - 1 > Manhattan(from, to)
    /\ F32Lt(F32FromInt(Len(result.path) - 1), costs[point_to_index(to, width)])

\* C4: astar_path(graph, p, p) returns Some([p]), walkable or not.
C4_SamePoint ==
    (Returned /\ from = to) => result = SomePath(<<from>>)

\* Some([p]) was returned for a p that is not walkable.
C4_Witness ==
    /\ Returned /\ from = to
    /\ ~WalkableAt(from)
    /\ result = SomePath(<<from>>)

\* The map of C5: walls (3,3)-(3,6) and (0,3)-(3,3) on the 10x10 grid.
C5_Map ==
    [i \in 0..99 |->
        LET q == <<i % 10, i \div 10>>
        IN  ~ \/ (q[1] = 3 /\ q[2] \in 3..6)
              \/ (q[1] \in 0..3 /\ q[2] = 3)]

C5_Path ==
    << <<0, 4>>, <<0, 5>>, <<1, 5>>, <<1, 6>>, <<2, 6>>, <<2, 7>>, <<3, 7>>, <<4, 7>>,
       <<5, 7>>, <<5, 6>>, <<5, 5>>, <<5, 4>> >>

C5_Case ==
    /\ Returned
    /\ width = 10 /\ height = 10 /\ walkable = C5_Map
    /\ from = <<0, 4>> /\ to = <<5, 4>>

\* C5: on the map of tests::astar_find_path, from (0,4) to (5,4), exactly
\* the reference path is returned.
C5_ReferencePath == C5_Case => result = SomePath(C5_Path)

\* The search of the reference scenario has returned a path.
C5_Witness == C5_Case /\ result.some

(***************************************************************************)
(* Properties of field_of_view.                                            *)
(***************************************************************************)
FovReturned == fpc = "done"

OriginOnMap == ~is_bounded(fwidth, fheight, origin[1], origin[2])

FovPoints == {fov[k] : k \in 1..Len(fov)}

OpaqueAt(p) == is_opaque(opaque, fwidth, p[1], p[2])

SquaredDistance(p) == (p[1] - origin[1]) ^ 2 + (p[2] - origin[2]) ^ 2

Sign(i) == IF i > 0 THEN 1 ELSE IF i < 0 THEN -1 ELSE 0

\* The two cells post_process_vision reads for a cell p of a quadrant: its
\* neighbours one step towards the origin's column and row.
QuadrantNeighbours(p) ==
    IF p[1] = origin[1] \/ p[2] = origin[2]
    THEN {}
    ELSE {<<p[1] - Sign(p[1] - origin[1]), p[2]>>, <<p[1], p[2] - Sign(p[2] - origin[2])>>}

\* C6 as stated: with a radius >= 1 the result contains the origin.
C6_ContainsOrigin ==
    (FovReturned /\ OriginOnMap /\ radius >= 1) => origin \in FovPoints

\* C6 amended: with a radius >= 1, on a map at least two cells wide and two
\* cells high, the result contains the origin when include_walls is true or
\* the origin is transparent.
C6_ContainsOriginUnlessFiltered ==
    (/\ FovReturned /\ OriginOnMap /\ radius >= 1
     /\ fwidth >= 2 /\ fheight >= 2
     /\ (include_walls \/ ~OpaqueAt(origin)))
        => origin \in FovPoints

\* An opaque origin next to other visible cells, returned with the walls.
C6_Witness ==
    /\ FovReturned /\ OriginOnMap /\ radius >= 1
    /\ include_walls /\ OpaqueAt(origin)
    /\ origin \in FovPoints /\ Len(fov) > 2

\* C7: a radius < 1 returns exactly [(x, y)], whatever the map and
\* include_walls.
C7_SmallRadius ==
    (FovReturned /\ OriginOnMap /\ radius < 1) => fov = <<origin>>

\* A negative radius, an opaque origin, and walls excluded.
C7_Witness ==
    /\ FovReturned /\ OriginOnMap /\ radius < 0
    /\ OpaqueAt(origin) /\ ~include_walls
    /\ fov = <<origin>>

\* C8: with a radius >= 1 and include_walls false, no returned point is
\* opaque.
C8_NoOpaque ==
    (FovReturned /\ OriginOnMap /\ radius >= 1 /\ ~include_walls)
        => \A p \in FovPoints : ~OpaqueAt(p)

\* An opaque cell was visible in the buffer and the result leaves it out.
C8_Witness ==
    /\ FovReturned /\ OriginOnMap /\ radius >= 1 /\ ~include_walls
    /\ fov # <<>>
    /\ \E i \in DOMAIN visibles :
          LET sub_width == FovWindow.maxx - FovWindow.minx + 1
              p == <<(i % sub_width) + FovWindow.minx, (i \div sub_width) + FovWindow.miny>>
          IN  visibles[i] /\ OpaqueAt(p) /\ p \notin FovPoints

\* C9: with a radius >= 1 and include_walls true, a returned point is
\* within radius^2 of the origin, or it is opaque and one of the two cells
\* its quadrant's pass reads is transparent and returned.
C9_WithinRadiusOrLitWall ==
    (FovReturned /\ OriginOnMap /\ radius >= 1 /\ include_walls)
        => \A p \in FovPoints :
              \/ SquaredDistance(p) <= radius ^ 2
              \/ /\ OpaqueAt(p)
                 /\ \E q \in QuadrantNeighbours(p) : ~OpaqueAt(q) /\ q \in FovPoints

\* A wall beyond the radius is returned.
C9_Witness ==
    /\ FovReturned /\ OriginOnMap /\ radius >= 1 /\ include_walls
    /\ \E p \in FovPoints : SquaredDistance(p) > radius ^ 2 /\ OpaqueAt(p)

NoDuplicates == \A i, j \in 1..Len(fov) : fov[i] = fov[j] => i = j

OnMap(p) == 0 <= p[1] /\ p[1] < fwidth /\ 0 <= p[2] /\ p[2] < fheight

InWindow(p) ==
    /\ origin[1] - radius <= p[1] /\ p[1] <= origin[1] + radius
    /\ origin[2] - radius <= p[2] /\ p[2] <= origin[2] + radius

\* C10 as stated: for every radius the result has no point twice, and
\* every point is on the map and in [x - radius, x + radius] x
\* [y - radius, y + radius].
C10_UniqueOnMapInWindow ==
    (FovReturned /\ OriginOnMap)
        => NoDuplicates /\ \A p \in FovPoints : OnMap(p) /\ InWindow(p)

\* C10 amended: for every radius the result has no point twice and every
\* point is on the map; for a radius >= 0 every point is in the window.
C10_UniqueOnMapInWindowOfRadius ==
    (FovReturned /\ OriginOnMap)
        => /\ NoDuplicates
           /\ \A p \in FovPoints : OnMap(p) /\ (radius >= 0 => InWindow(p))

\* A window clipped by the map on two sides, several points returned.
C10_Witness ==
    /\ FovReturned /\ OriginOnMap /\ radius >= 2
    /\ origin[1] - radius < 0 /\ origin[2] + radius > fheight - 1
    /\ Len(fov) >= 4

\* C11: with the origin off the map field_of_view panics and returns
\* nothing, whatever the radius; with the origin on the map it does not
\* panic.
C11_PanicsIffOffMap ==
    /\ (~OnMap(origin) /\ fpc # "start") => (fpc = "panicked" /\ fov = <<>>)
    /\ OnMap(origin) => fpc # "panicked"

\* A panic with a radius < 1 and the origin just beyond the last column.
C11_Witness ==
    /\ fpc = "panicked"
    /\ radius < 1
    /\ origin[1] = fwidth /\ origin[2] >= 0 /\ origin[2] < fheight

\* The clipped window of the call has maxx = minx or maxy = miny.
Degenerate == FovWindow.maxx = FovWindow.minx \/ FovWindow.maxy = FovWindow.miny

\* C15: for radius >= 1 the clipped window has maxx = minx or maxy = miny
\* exactly when the map is 1 cell wide or 1 cell high, and field_of_view then
\* returns the empty list.
C15_DegenerateWindowIsEmpty ==
    (FovReturned /\ radius >= 1) =>
        /\ Degenerate <=> (fwidth = 1 \/ fheight = 1)
        /\ Degenerate => fov = <<>>

\* A map 1 cell wide and several high, seen from a transparent origin.
C15_Witness ==
    /\ FovReturned
    /\ radius >= 1
    /\ fwidth = 1 /\ fheight > 1
    /\ ~OpaqueAt(origin)
    /\ fov = <<>>

(***************************************************************************)
(* astar_path on a graph that pushes any neighbours.                       *)
(***************************************************************************)
Usable(p) == InBounds(p, width, height) /\ WalkableAt(p)

\* C16: whatever the graph's neighboors pushes, astar_path calls is_walkable
\* only on neighbours in bounds, calls cost_between and heuristic and indexes
\* its arrays only for neighbours in bounds and walkable, pushes only those
\* into the frontier, and returns a path whose cells after the origin are in
\* bounds and walkable.
C16_NeighboursFiltered ==
    /\ \A c \in calls :
          /\ InBounds(c.p, width, height)
          /\ c.fn # "is_walkable" => WalkableAt(c.p)
    /\ pc = "search" =>
          \A k \in 1..Len(frontier) :
              \/ frontier[k].item = point_to_index(from, width)
              \/ /\ frontier[k].item \in 0..(width * height - 1)
                 /\ Usable(index_to_point(frontier[k].item, width))
    /\ (pc = "done" /\ result.some) =>
          \A k \in 2..Len(result.path) : Usable(result.path[k])

\* A graph that jumps diagonally was searched next to a wall and to the edge
\* of the map: is_walkable was asked for the wall, nothing else was, and a
\* path of several cells was returned.
C16_Witness ==
    /\ pc = "done"
    /\ result.some /\ Len(result.path) >= 3
    /\ \E k \in 1..Len(steps) : steps[k][1] # 0 /\ steps[k][2] # 0
    /\ \E c \in calls : c.fn = "is_walkable" /\ ~WalkableAt(c.p)
    /\ \E i \in 1..Len(result.path), k \in 1..Len(steps) :
          ~InBounds(<<result.path[i][1] + steps[k][1], result.path[i][2] + steps[k][2]>>,
                    width, height)

(***************************************************************************)
(* FovMap::new.                                                            *)
(***************************************************************************)
\* C17: FovMap::new(width, height) panics with the message "Width and height
\* should be > 0" whenever width <= 0 or height <= 0, so that every FovMap
\* constructed has both dimensions > 0.
C17_NewPanicsOnEitherDimension ==
    /\ (mpc \in {"built", "panicked"} /\ (mwidth <= 0 \/ mheight <= 0)) =>
          (mpc = "panicked" /\ mmsg = MsgDimensions(mwidth, mheight))
    /\ mpc = "built" => (mwidth > 0 /\ mheight > 0)

\* FovMap::new(0, h), h > 0, returned a FovMap without cells.
C17_Witness ==
    /\ mpc = "built"
    /\ mwidth = 0 /\ mheight > 0
    /\ transparent = <<>> /\ vision = <<>>

(***************************************************************************)
(* Properties of LineBresenham.                                            *)
(***************************************************************************)
Exhausted == lpc = "done"

\* C12: iterated to exhaustion, LineBresenham::new(start, end) yields
\* max(|dx|, |dy|) + 1 points, the first start and the last end.
C12_LineLength ==
    Exhausted =>
        /\ Len(yielded) = Max(Abs(line_end[1] - line_start[1]),
                              Abs(line_end[2] - line_start[2])) + 1
        /\ yielded[1] = line_start
        /\ yielded[Len(yielded)] = line_end

\* An exhausted steep line that goes up and left to negative coordinates.
C12_Witness ==
    /\ Exhausted
    /\ line_end[2] < line_start[2] /\ line_end[1] < line_start[1]
    /\ Abs(line_end[2] - line_start[2]) > Abs(line_end[1] - line_start[1])
    /\ line_end[2] < 0
    /\ Len(yielded) >= 4

\* C13: the length reported by len() on a freshly created iterator is the
\* number of points the iterator yields until it is exhausted.
C13_LenIsCount == Exhausted => line_len = Len(yielded)

\* An exhausted vertical line of four points, whose length is counted along y.
C13_Witness ==
    /\ Exhausted
    /\ line_start[1] = line_end[1]
    /\ line_len = 4
    /\ Len(yielded) = 4

\* The cells of the clipped window off the origin's column and row: the
\* cells of the four quadrants.
QuadrantCells ==
    {p \in {<<x, y>> : x \in FovWindow.minx..FovWindow.maxx,
                       y \in FovWindow.miny..FovWindow.maxy} :
        p[1] # origin[1] /\ p[2] # origin[2]}

\* The neighbours of a quadrant's cell one step further from the origin's
\* column and row.
FurtherNeighbours(p) ==
    {<<p[1] + Sign(p[1] - origin[1]), p[2]>>, <<p[1], p[2] + Sign(p[2] - origin[2])>>}

\* C18 as stated: an opaque cell of a quadrant is in the result (walls
\* included) if its neighbour one step further from the origin along x or y
\* is transparent and visible.
C18_RevealedByFurtherNeighbour ==
    (FovReturned /\ OriginOnMap /\ radius >= 1 /\ include_walls /\ ~Degenerate)
        => \A p \in QuadrantCells :
              (/\ OpaqueAt(p)
               /\ \E q \in FurtherNeighbours(p) :
                     OnMap(q) /\ ~OpaqueAt(q) /\ q \in FovPoints)
                  => p \in FovPoints

\* C18 amended: an opaque cell of a quadrant is in the result (walls
\* included) if its neighbour one step closer to the origin along x or y is
\* transparent and visible.
C18_RevealedByCloserNeighbour ==
    (FovReturned /\ OriginOnMap /\ radius >= 1 /\ include_walls /\ ~Degenerate)
        => \A p \in QuadrantCells :
              (/\ OpaqueAt(p)
               /\ \E q \in QuadrantNeighbours(p) : ~OpaqueAt(q) /\ q \in FovPoints)
                  => p \in FovPoints

\* The wall at the far corner of the map, beyond the radius, which no ray
\* lights, is returned: only its neighbour along y is transparent and visible.
C18_Witness ==
    /\ FovReturned /\ OriginOnMap /\ radius >= 1 /\ include_walls
    /\ \E p \in FovPoints :
          /\ p[1] > origin[1] /\ p[2] > origin[2]
          /\ OpaqueAt(p) /\ SquaredDistance(p) > radius ^ 2
          /\ OpaqueAt(<<p[1] - 1, p[2]>>)
          /\ ~OpaqueAt(<<p[1], p[2] - 1>>) /\ <<p[1], p[2] - 1>> \in FovPoints

\* The destinations of the rays of the call, in the window's coordinates.
RayDestinations ==
    {ray_destinations(FovWindow)[i] : i \in 1..Len(ray_destinations(FovWindow))}

\* The cells that the ray to the destination d visits if nothing stops it,
\* in the map's coordinates: the line from the origin, its first point
\* skipped.
RayCells(d) ==
    LET pts == LineBresenham_collect(LineBresenham_new(
                   <<origin[1] - FovWindow.minx, origin[2] - FovWindow.miny>>, d))
    IN  [k \in 1..(Len(pts) - 1) |->
            <<pts[k + 1][1] + FovWindow.minx, pts[k + 1][2] + FovWindow.miny>>]

\* The position of the first opaque cell of a ray, 0 if it has none.
FirstOpaque(cells) ==
    LET ks == {k \in 1..Len(cells) : OpaqueAt(cells[k])}
    IN  IF ks = {} THEN 0 ELSE CHOOSE k \in ks : \A j \in ks : k <= j

\* C19 as stated: with a radius >= 1 and the walls included, the first
\* opaque cell of every ray is in the result.
C19_FirstOpaqueLit ==
    (FovReturned /\ OriginOnMap /\ radius >= 1 /\ include_walls /\ ~Degenerate)
        => \A d \in RayDestinations :
              FirstOpaque(RayCells(d)) # 0
                  => RayCells(d)[FirstOpaque(RayCells(d))] \in FovPoints

\* C19 amended: with a radius >= 1 and the walls included, the first opaque
\* cell of every ray is in the result when it is within radius^2 of the
\* origin.
C19_FirstOpaqueLitWithinRadius ==
    (FovReturned /\ OriginOnMap /\ radius >= 1 /\ include_walls /\ ~Degenerate)
        => \A d \in RayDestinations :
              (/\ FirstOpaque(RayCells(d)) # 0
               /\ SquaredDistance(RayCells(d)[FirstOpaque(RayCells(d))]) <= radius ^ 2)
                  => RayCells(d)[FirstOpaque(RayCells(d))] \in FovPoints

\* A ray met a wall within the radius two cells from the origin, before its
\* destination: the wall is returned.
C19_Witness ==
    /\ FovReturned /\ OriginOnMap /\ radius >= 1 /\ include_walls /\ ~Degenerate
    /\ \E d \in RayDestinations :
          /\ FirstOpaque(RayCells(d)) = 2
          /\ Len(RayCells(d)) > 2
          /\ SquaredDistance(RayCells(d)[2]) <= radius ^ 2
          /\ RayCells(d)[2] \in FovPoints

\* The cell p is on a ray of the call, and every cell of that ray between
\* the origin and p is transparent.
OnClearRay(p) ==
    \E d \in RayDestinations :
        \E k \in 1..Len(RayCells(d)) :
            /\ RayCells(d)[k] = p
            /\ \A j \in 1..(k - 1) : ~OpaqueAt(RayCells(d)[j])

\* Every transparent cell of the result but the origin is within radius^2
\* of the origin and on a ray that reaches it through transparent cells.
TransparentLitByClearRay ==
    (FovReturned /\ OriginOnMap /\ radius >= 1)
        => \A p \in FovPoints :
              (~OpaqueAt(p) /\ p # origin)
                  => SquaredDistance(p) <= radius ^ 2 /\ OnClearRay(p)

\* A call of post_process_vision sets no transparent cell visible.
PostProcessRevealsOnlyOpaque ==
    fpc = "post" =>
        \A i \in DOMAIN visibles :
            (visibles'[i] /\ ~visibles[i])
                => OpaqueAt(<<(i % (FovWindow.maxx - FovWindow.minx + 1)) + FovWindow.minx,
                              (i \div (FovWindow.maxx - FovWindow.minx + 1)) + FovWindow.miny>>)

\* C20: with a radius >= 1, every transparent cell of the result other than
\* the origin is within radius^2 of the origin and on the line from the
\* origin to a perimeter cell of the window, with only transparent cells
\* between the origin and it; the post-process pass reveals no transparent
\* cell.
C20_TransparentOnlyByRays ==
    []TransparentLitByClearRay /\ [][PostProcessRevealsOnlyOpaque]_vars

\* A transparent cell two steps or more from the origin is returned, and
\* another transparent cell within the radius is hidden.
C20_Witness ==
    /\ FovReturned /\ OriginOnMap /\ radius >= 1
    /\ \E p \in FovPoints : ~OpaqueAt(p) /\ SquaredDistance(p) >= 4
    /\ \E x \in FovWindow.minx..FovWindow.maxx, y \in FovWindow.miny..FovWindow.maxy :
          /\ ~OpaqueAt(<<x, y>>)
          /\ SquaredDistance(<<x, y>>) <= radius ^ 2
          /\ <<x, y>> \notin FovPoints

(***************************************************************************)
(* astar_path with from or to off the map.                                 *)
(***************************************************************************)
OffMap(p) == ~InBounds(p, width, height)

\* C14: when from or to is outside the dimensions of the graph, astar_path
\* panics: it never returns, neither a path nor None.
C14_OffMapPanics == (OffMap(from) \/ OffMap(to)) => pc # "done"

\* from is one column beyond the first row and to is on the map: a path is
\* returned, which starts at the first cell of the second row.
C14_Witness ==
    /\ pc = "done"
    /\ from = <<width, 0>> /\ ~OffMap(to)
    /\ result.some
    /\ result.path[1] = <<0, 1>>
    /\ result.path[Len(result.path)] = to

\* C21: for each of the 8 octants from_octant0 is the inverse of to_octant0,
\* and the octant that from_points chooses for start and end maps them to
\* endpoints with dx >= dy >= 0.
C21_OctantInverseAndCanonical ==
    lpc # "idle" =>
        /\ \A octant \in 0..7 :
              \A p \in {line_start, line_end} \cup {yielded[k] : k \in 1..Len(yielded)} :
                  from_octant0(octant, to_octant0(octant, p)) = p
        /\ line_it.octant = Octant_from_points(line_start, line_end)
        /\ line_it.dx = to_octant0(line_it.octant, line_end)[1]
                        - to_octant0(line_it.octant, line_start)[1]
        /\ line_it.dy = to_octant0(line_it.octant, line_end)[2]
                        - to_octant0(line_it.octant, line_start)[2]
        /\ line_it.dx >= line_it.dy
        /\ line_it.dy >= 0

\* A line of octant 6 (up, steep, to the right) that has yielded points:
\* the octant whose transform is not its own inverse.
C21_Witness ==
    /\ lpc = "iterate"
    /\ line_it.octant = 6
    /\ line_it.dx > line_it.dy /\ line_it.dy > 0
    /\ Len(yielded) >= 2

(***************************************************************************)
(* The heuristic and the costs of FourWayGridGraph.                        *)
(***************************************************************************)
\* An f32 cost in units of 2^-23, exactly.
CostUnits(c) == c.whole * F32Unit + c.frac

\* One round of relaxation of the costs d of the cheapest routes to dest
\* found so far, -1 where none is: a route from a starts with a step to a
\* 4-neighbour b on the grid and costs cost_between(a, b) more than a route
\* from b.
RouteRelax(d, dest, w, h) ==
    [a \in Points(w, h) |->
        IF a = dest
        THEN 0
        ELSE LET via == {CostUnits(cost_between(a, neighboors(a)[k])) + d[neighboors(a)[k]] :
                            k \in {j \in 1..Len(neighboors(a)) :
                                      /\ InBounds(neighboors(a)[j], w, h)
                                      /\ d[neighboors(a)[j]] >= 0}}
                 known == via \cup (IF d[a] >= 0 THEN {d[a]} ELSE {})
             IN  IF known = {} THEN -1
                 ELSE CHOOSE c \in known : \A e \in known : c <= e]

\* Relaxation repeated until no cost changes.
RECURSIVE RouteCosts(_, _, _, _)
RouteCosts(d, dest, w, h) ==
    LET n == RouteRelax(d, dest, w, h)
    IN  IF n = d THEN d ELSE RouteCosts(n, dest, w, h)

\* The exact total cost_between of the cheapest 4-connected route from every
\* point of the grid to dest, walls ignored.
MinRouteCost(dest, w, h) ==
    RouteCosts([a \in Points(w, h) |-> IF a = dest THEN 0 ELSE -1], dest, w, h)

\* C22: the heuristic is admissible and consistent: for every point a of the
\* grid heuristic(a, to) is at most the cost of the cheapest 4-connected
\* route from a to to, and at most cost_between(a, b) + heuristic(b, to)
\* for every 4-neighbour b of a.
C22_HeuristicAdmissibleConsistent ==
    pc = "done" =>
        \E d \in {MinRouteCost(to, width, height)} :
            \A a \in Points(width, height) :
                /\ CostUnits(heuristic(a, to)) <= d[a]
                /\ \A k \in 1..Len(neighboors(a)) :
                      F32Le(heuristic(a, to),
                            F32Add(cost_between(a, neighboors(a)[k]),
                                   heuristic(neighboors(a)[k], to)))

\* A search between two cells three steps apart or more returned a path that
\* costs more than the heuristic of its origin.
C22_Witness ==
    /\ pc = "done"
    /\ result.some
    /\ Manhattan(from, to) >= 3
    /\ F32Lt(heuristic(from, to), costs[point_to_index(to, width)])

(***************************************************************************)
(* Termination of astar_path.  The loops of astar_path and of              *)
(* reconstruct_path run without waiting for anything, so a step that is    *)
(* possible is eventually taken.  One state, before the call, is initial.  *)
(***************************************************************************)
InitTerm == AStarIdle /\ FovIdle /\ LineIdle /\ GraphIdle /\ FovMapIdle

\* astar_path is called on a map of the bounded sizes or on a map of the
\* tests: lines 134-151.
AStarEnter ==
    /\ pc = "idle"
    /\ \E w \in 1..TestSize, h \in 1..TestSize :
         \E walk \in (IF w <= MaxWidth /\ h <= MaxHeight THEN Maps(w, h, MaxWalls) ELSE {})
                         \cup (IF w = TestSize /\ h = TestSize THEN {FindPathMap, NoPathMap} ELSE {}),
            src \in Points(w, h), dest \in Points(w, h) :
            /\ w = TestSize => src = TestFrom
            /\ \E st \in {search_start(w, h, src)} :
                  /\ width' = w
                  /\ height' = h
                  /\ walkable' = walk
                  /\ from' = src
                  /\ to' = dest
                  /\ frontier' = st.frontier
                  /\ came_from' = st.came_from
                  /\ costs' = st.costs
    /\ pc' = "search"
    /\ UNCHANGED <<to_cost, current, path, result>>
    /\ UNCHANGED <<fvars, lvars, gvars, mvars>>

NextTerm == AStarEnter \/ Next

\* The while loop of astar_path is at its head with a State to pop.
Searching == pc = "search" /\ frontier # <<>>

Reconstruct == ReconstructFollow \/ ReconstructNone \/ ReconstructSome

\* Weak fairness of every step of the two loops; nothing obliges the caller
\* to call.  A pop with a State in the frontier is possible exactly when
\* Searching holds and always changes the frontier, and its weak fairness is
\* written with Searching in the place of ENABLED.
SpecTerm ==
    /\ InitTerm
    /\ [][NextTerm]_vars
    /\ WF_vars(PopNone)
    /\ WF_vars(Reconstruct)
    /\ ([]<>(~Searching) \/ []<><<PopDestination \/ PopExpand>>_vars)

\* The number of entries of the frontier for the cell of index i.
Pushed(fr, i) == Cardinality({k \in DOMAIN fr : fr[k].item = i})

\* came_from of the origin is None.
OriginHasNoPredecessor ==
    pc # "idle" => came_from[point_to_index(from, width)] = None

\* The recorded cost of the predecessor of a cell is below its own.
CostsDecreaseAlongCameFrom ==
    \A i \in DOMAIN came_from :
        came_from[i] # None =>
            /\ costs[i] # NoCost
            /\ costs[came_from[i]] # NoCost
            /\ F32Lt(costs[came_from[i]], costs[i])

\* A step pushes a cell only when its cost was None or decreases strictly.
PushOnlyOnDecrease ==
    \A i \in DOMAIN costs :
        Pushed(frontier', i) > Pushed(frontier, i) =>
            /\ costs'[i] # NoCost
            /\ costs[i] = NoCost \/ F32Lt(costs'[i], costs[i])

\* C23: astar_path terminates: every call returns, a cell is pushed again
\* only on a strict decrease of its cost, the costs decrease strictly along
\* came_from and the origin never gets a predecessor.
C23_Terminates ==
    /\ (pc = "search") ~> (pc = "done")
    /\ []OriginHasNoPredecessor
    /\ []CostsDecreaseAlongCameFrom
    /\ [][PushOnlyOnDecrease]_vars

\* A call returned a path of four cells or more after a search that pushed
\* one cell twice.
C23_Witness ==
    /\ pc = "done"
    /\ result.some
    /\ Len(path) >= 4
    /\ \E i \in DOMAIN costs : Pushed(frontier, i) >= 2

(***************************************************************************)
(* field_of_view with a radius whose square does not fit an i32.  The      *)
(* arithmetic of field_of_view is on i32: a build with overflow checks     *)
(* panics where a result does not fit, a build without them wraps it       *)
(* modulo 2^32.                                                            *)
(***************************************************************************)
I32Max == 2147483647

I32Min == -I32Max - 1

\* radius.pow(2) does not fit an i32.
pow_overflows(r) == r # 0 /\ Abs(r) > I32Max \div Abs(r)

\* i32 addition, subtraction and multiplication modulo 2^32.
wrapping_add(a, b) ==
    IF b > 0 /\ a > I32Max - b THEN ((a - I32Max) + (b - I32Max)) - 2
    ELSE IF b < 0 /\ a < I32Min - b THEN (a - I32Min) + (b - I32Min)
    ELSE a + b

wrapping_sub(a, b) == wrapping_add(a, IF b = I32Min THEN I32Min ELSE -b)

RECURSIVE wrapping_mul(_, _)
wrapping_mul(a, b) ==
    IF b = 0 THEN 0
    ELSE IF b = I32Min THEN (IF a % 2 = 0 THEN 0 ELSE I32Min)
    ELSE IF b < 0 THEN wrapping_sub(0, wrapping_mul(a, -b))
    ELSE wrapping_add(wrapping_mul(wrapping_add(a, a), b \div 2),
                      IF b % 2 = 1 THEN a ELSE 0)

\* Every map of the bounded sizes with every origin on the map, and the
\* radii from 1 to MaxRadius; the radius i32::MAX from the origins that are
\* neither in the first column nor in the first row.
InitFovFar ==
    /\ \E w \in 1..MaxWidth, h \in 1..MaxHeight :
          \E op \in OpaqueMaps(w, h, MaxWalls), x \in 0..(w - 1), y \in 0..(h - 1),
             r \in (1..MaxRadius) \cup {I32Max}, walls \in BOOLEAN :
              /\ r = I32Max => (x >= 1 /\ y >= 1)
              /\ FovStart(w, h, op, x, y, r, walls)
    /\ AStarIdle /\ LineIdle /\ GraphIdle /\ FovMapIdle

\* With overflow checks: radius.pow(2) panics (line 32).
FovOverflowPanic ==
    /\ fpc = "start"
    /\ pow_overflows(radius)
    /\ fpc' = "panicked"
    /\ UNCHANGED <<opaque, fwidth, fheight, origin, radius, include_walls, visibles,
                   rays, quadrants, fov>>
    /\ UNCHANGED <<avars, lvars, gvars, mvars>>

\* Without overflow checks: lines 32-57 with wrapped results.  The length
\* of the buffer is `(sub_width * sub_height) as usize`, above every
\* capacity when the product is negative, and the index of the origin is
\* cast in the same way: vec! or the indexing panics.
FovWrapPanic ==
    /\ fpc = "start"
    /\ pow_overflows(radius)
    /\ ~is_bounded(fwidth, fheight, origin[1], origin[2])
    /\ radius >= 1
    /\ LET win == [minx |-> Max(wrapping_sub(origin[1], radius), 0),
                   miny |-> Max(wrapping_sub(origin[2], radius), 0),
                   maxx |-> Min(wrapping_add(origin[1], radius), fwidth - 1),
                   maxy |-> Min(wrapping_add(origin[2], radius), fheight - 1)]
           sub_width == wrapping_add(wrapping_sub(win.maxx, win.minx), 1)
           sub_height == wrapping_add(wrapping_sub(win.maxy, win.miny), 1)
           length == wrapping_mul(sub_width, sub_height)
           index == wrapping_add(wrapping_sub(origin[1], win.minx),
                                 wrapping_mul(wrapping_sub(origin[2], win.miny), sub_width))
       IN  /\ ~(wrapping_sub(win.maxx, win.minx) = 0 \/ wrapping_sub(win.maxy, win.miny) = 0)
           /\ length < 0 \/ index < 0 \/ index >= length
    /\ fpc' = "panicked"
    /\ UNCHANGED <<opaque, fwidth, fheight, origin, radius, include_walls, visibles,
                   rays, quadrants, fov>>
    /\ UNCHANGED <<avars, lvars, gvars, mvars>>

NextFovFar ==
    \/ FovOverflowPanic
    \/ FovWrapPanic
    \/ (~pow_overflows(radius) /\ FovNoArea)
    \/ (~pow_overflows(radius) /\ FovBegin)
    \/ FovCastRay
    \/ FovPostProcess
    \/ FovCollect

SpecFovFar == InitFovFar /\ [][NextFovFar]_vars

\* C24: with the origin on the map and a radius >= 1, field_of_view does not
\* panic.
C24_CompletesWithoutPanic == (OriginOnMap /\ radius >= 1) => fpc # "panicked"

\* field_of_view panicked with the origin (1, 1) and the radius i32::MAX.
C24_Witness ==
    /\ fpc = "panicked"
    /\ fwidth = 3
    /\ fheight = 3
    /\ origin = <<1, 1>>
    /\ radius = I32Max

(***************************************************************************)
(* FovMap::calculate_fov.  cast_ray_and_mark_visible and                   *)
(* FovMap::post_process_vision are cast_ray and post_process_vision of     *)
(* fov.rs on the buffer of the whole map: the width of the map for the     *)
(* width of the window, no offset, and `!transparent[index]` for           *)
(* is_opaque.  The lines are those of LineBresenham.                       *)
(***************************************************************************)
\* A calculate_fov that does not reset the vision.
fovmap_calculate_fov_no_reset(vis, tr, w, h, x, y, r) ==
    LET op == [i \in DOMAIN tr |-> ~tr[i]]
        start == [vis EXCEPT ![x + y * w] = TRUE]
        win == window(w, h, x, y, r)
    IN  IF r < 1 \/ win.maxx - win.minx = 0 \/ win.maxy - win.miny = 0
        THEN start
        ELSE LET dests == [k \in 1..Len(ray_destinations(win)) |->
                              <<ray_destinations(win)[k][1] + win.minx,
                                ray_destinations(win)[k][2] + win.miny>>]
                 seen == cast_rays(op, w, start, w, <<x, y>>, dests, 1, r ^ 2, 0, 0)
                 passes ==
                     << [minx |-> x + 1, miny |-> y + 1, maxx |-> win.maxx, maxy |-> win.maxy,
                         dx |-> -1, dy |-> -1],
                        [minx |-> win.minx, miny |-> y + 1, maxx |-> x - 1, maxy |-> win.maxy,
                         dx |-> 1, dy |-> -1],
                        [minx |-> win.minx, miny |-> win.miny, maxx |-> x - 1, maxy |-> y - 1,
                         dx |-> 1, dy |-> 1],
                        [minx |-> x + 1, miny |-> win.miny, maxx |-> win.maxx, maxy |-> y - 1,
                         dx |-> -1, dy |-> 1] >>
             IN  post_process_all(op, w, seen, w, passes, 1, 0, 0)

\* calculate_fov(x, y, r) on a map: the vision it leaves, from the vision
\* vis before the call and the transparency tr.
fovmap_calculate_fov(vis, tr, w, h, x, y, r) ==
    LET op == [i \in DOMAIN tr |-> ~tr[i]]
        start == [[i \in DOMAIN vis |-> FALSE] EXCEPT ![x + y * w] = TRUE]
        win == window(w, h, x, y, r)
    IN  IF r < 1 \/ win.maxx - win.minx = 0 \/ win.maxy - win.miny = 0
        THEN start
        ELSE LET dests == [k \in 1..Len(ray_destinations(win)) |->
                              <<ray_destinations(win)[k][1] + win.minx,
                                ray_destinations(win)[k][2] + win.miny>>]
                 seen == cast_rays(op, w, start, w, <<x, y>>, dests, 1, r ^ 2, 0, 0)
                 passes ==
                     << [minx |-> x + 1, miny |-> y + 1, maxx |-> win.maxx, maxy |-> win.maxy,
                         dx |-> -1, dy |-> -1],
                        [minx |-> win.minx, miny |-> y + 1, maxx |-> x - 1, maxy |-> win.maxy,
                         dx |-> 1, dy |-> -1],
                        [minx |-> win.minx, miny |-> win.miny, maxx |-> x - 1, maxy |-> y - 1,
                         dx |-> 1, dy |-> 1],
                        [minx |-> x + 1, miny |-> win.miny, maxx |-> win.maxx, maxy |-> y - 1,
                         dx |-> -1, dy |-> 1] >>
             IN  post_process_all(op, w, seen, w, passes, 1, 0, 0)

\* FovMaps of the bounded sizes.
InitFovCalc ==
    /\ \E w \in 1..MaxWidth, h \in 1..MaxHeight : FovMapCalled(w, h)
    /\ AStarIdle /\ FovIdle /\ LineIdle /\ GraphIdle

\* calculate_fov(x, y, r) from a cell of the map.
CalculateFov ==
    /\ mpc = "built"
    /\ \E x \in -1..mwidth, y \in -1..mheight, r \in 0..MaxRadius :
          /\ ~fovmap_out_of_bounds(x, y)
          /\ vision' = fovmap_calculate_fov(vision, transparent, mwidth, mheight, x, y, r)
          /\ last_origin' = <<x, y>>
          /\ last_radius' = r
    /\ UNCHANGED <<mwidth, mheight, transparent, mpc, mmsg>>
    /\ UNCHANGED <<avars, fvars, lvars, gvars>>

\* calculate_fov off the map: assert_in_bounds panics (line 66).
CalculateFovPanic ==
    /\ mpc = "built"
    /\ \E x \in -1..mwidth, y \in -1..mheight :
          /\ fovmap_out_of_bounds(x, y)
          /\ mmsg' = MsgBounds(mwidth, mheight, x, y)
    /\ mpc' = "panicked"
    /\ UNCHANGED <<mwidth, mheight, transparent, vision, last_origin, last_radius>>
    /\ UNCHANGED <<avars, fvars, lvars, gvars>>

\* At most MaxWalls cells are not transparent.
FewWalls == Cardinality({i \in DOMAIN transparent : ~transparent[i]}) <= MaxWalls

NextFovCalc ==
    \/ FovMapNew
    \/ (SetTransparent /\ FewWalls')
    \/ CalculateFov
    \/ CalculateFovPanic

SpecFovCalc == InitFovCalc /\ [][NextFovCalc]_vars

AllCells(b) == [i \in DOMAIN vision |-> b]

\* A call of calculate_fov returned.
Calculated == mpc = "built" /\ last_origin # <<-1, -1>>

\* C25 as stated: the cells in the field of view are those that
\* calculate_fov gives for the current transparency and the arguments of the
\* last call.
C25_FreshForCurrentGrid ==
    Calculated =>
        vision = fovmap_calculate_fov(AllCells(FALSE), transparent, mwidth, mheight,
                                      last_origin[1], last_origin[2], last_radius)

\* C25: a step that changes the vision or the arguments of the last call is
\* a call of calculate_fov, and the vision after it is the one that the
\* transparency at the call and the arguments give whatever the vision was
\* before; the origin of the call is in it.
C25_FreshAtCall ==
    [][(mpc = "built" /\ <<vision, last_origin, last_radius>>' # <<vision, last_origin, last_radius>>) =>
          /\ \A b \in BOOLEAN :
                vision' = fovmap_calculate_fov(AllCells(b), transparent, mwidth, mheight,
                                               last_origin'[1], last_origin'[2], last_radius')
          /\ vision'[fovmap_index(last_origin'[1], last_origin'[2])]
          /\ transparent' = transparent]_vars

\* After a call with a radius >= 1 on a map with an opaque cell, a cell is
\* out of the field of view and the origin is in it.
C25_Witness ==
    /\ Calculated
    /\ last_radius >= 1
    /\ \E i \in DOMAIN transparent : ~transparent[i]
    /\ \E i \in DOMAIN vision : ~vision[i]
    /\ vision[fovmap_index(last_origin[1], last_origin[2])]

(***************************************************************************)
(* The free function field_of_view of the field_of_vision crate, on a Map  *)
(* whose is_transparent(x, y) is ~is_opaque(x, y).  Its cast_ray and       *)
(* post_process_vision (lib.rs 393-451) are those of fov.rs.  The          *)
(* statement of line 273 reads the cell of the origin and writes nothing.  *)
(***************************************************************************)
lib_field_of_view(op, w, h, x, y, r) ==
    IF r < 1
    THEN << <<x, y>> >>
    ELSE LET win == window(w, h, x, y, r)
         IN  IF win.maxx - win.minx = 0 \/ win.maxy - win.miny = 0
             THEN <<>>
             ELSE LET sub_width == win.maxx - win.minx + 1
                      sub_height == win.maxy - win.miny + 1
                      buffer == [i \in 0..(sub_width * sub_height - 1) |-> FALSE]
                      seen == cast_rays(op, w, buffer, sub_width,
                                        <<x - win.minx, y - win.miny>>,
                                        ray_destinations(win), 1, r ^ 2,
                                        win.minx, win.miny)
                      lit == post_process_all(op, w, seen, sub_width,
                                              quadrant_passes(win, x, y), 1,
                                              win.minx, win.miny)
                  IN  collect_visibles(lit, sub_width, win.minx, win.miny)

\* field_of_view(map, x, y, radius) returns.
LibFovCall ==
    /\ fpc = "start"
    /\ ~is_bounded(fwidth, fheight, origin[1], origin[2])
    /\ fov' = lib_field_of_view(opaque, fwidth, fheight, origin[1], origin[2], radius)
    /\ fpc' = "done"
    /\ UNCHANGED <<opaque, fwidth, fheight, origin, radius, include_walls, visibles,
                   rays, quadrants>>
    /\ UNCHANGED <<avars, lvars, gvars, mvars>>

\* Map::assert_in_bounds panics (line 249).
LibFovPanic ==
    /\ fpc = "start"
    /\ is_bounded(fwidth, fheight, origin[1], origin[2])
    /\ fpc' = "panicked"
    /\ UNCHANGED <<opaque, fwidth, fheight, origin, radius, include_walls, visibles,
                   rays, quadrants, fov>>
    /\ UNCHANGED <<avars, lvars, gvars, mvars>>

NextLibFov == LibFovCall \/ LibFovPanic

SpecLibFov == InitFov /\ [][NextLibFov]_vars

\* C26: with a radius >= 1 on a map of two columns and two rows or more, the
\* list that the free function field_of_view returns contains the origin.
C26_OriginReturned ==
    (fpc = "done" /\ radius >= 1 /\ fwidth >= 2 /\ fheight >= 2) => origin \in FovPoints

\* field_of_view returned the two neighbours of the origin (0, 0) of a map
\* of two columns and two rows, and not the origin.
C26_Witness ==
    /\ fpc = "done"
    /\ radius = 1
    /\ fwidth = 2
    /\ fheight = 2
    /\ origin = <<0, 0>>
    /\ FovPoints = {<<1, 0>>, <<0, 1>>}

(***************************************************************************)
(* field_of_view of torchbearer and FovMap::calculate_fov on the same map. *)
(***************************************************************************)
\* The cells for which is_in_fov is true after calculate_fov with the origin
\* and the radius of the call of field_of_view, on a FovMap whose
\* transparent cells are the cells that are not opaque.
FovMapCells ==
    LET v == fovmap_calculate_fov([i \in DOMAIN opaque |-> FALSE],
                                  [i \in DOMAIN opaque |-> ~opaque[i]],
                                  fwidth, fheight, origin[1], origin[2], radius)
    IN  {<<i % fwidth, i \div fwidth>> : i \in {j \in DOMAIN v : v[j]}}

\* C27: on a map of two columns and two rows or more, a call of
\* field_of_view with the origin on the map and include_walls = true returns,
\* and the set of its points is the set of the cells in the field of view of
\* the FovMap.
C27_SameAsFovMap ==
    (fpc \in {"done", "panicked"} /\ OriginOnMap /\ include_walls /\ fwidth >= 2 /\ fheight >= 2) =>
        (fpc = "done" /\ FovPoints = FovMapCells)

\* A call with radius 2 on a map of three columns with an opaque cell
\* returned the cells of the FovMap, and not every cell.
C27_Witness ==
    /\ fpc = "done"
    /\ include_walls
    /\ radius = 2
    /\ fwidth = 3
    /\ fheight >= 2
    /\ \E i \in DOMAIN opaque : opaque[i]
    /\ FovPoints = FovMapCells
    /\ Cardinality(FovPoints) < fwidth * fheight

(***************************************************************************)
(* field_of_view on a map without opaque cells.                            *)
(***************************************************************************)
NoOpaqueCell == \A i \in DOMAIN opaque : ~opaque[i]

\* The cells of S that 4-connected steps inside S reach from seen.
RECURSIVE Region(_, _)
Region(seen, S) ==
    LET more == {p \in S \ seen : \E q \in seen : Adjacent4(p, q)}
    IN  IF more = {} THEN seen ELSE Region(seen \cup more, S)

\* The cells of the map within the radius of the origin.
Disc ==
    {p \in {<<i % fwidth, i \div fwidth>> : i \in DOMAIN opaque} :
        InWindow(p) /\ SquaredDistance(p) <= radius ^ 2}

\* C28: on a map without opaque cells, of two columns and two rows or more,
\* a call of field_of_view with the origin on the map and a radius >= 1
\* returns exactly the cells of the clipped window within the radius, and
\* they are one 4-connected region that contains the origin.
C28_OpenMapDisc ==
    (/\ fpc \in {"done", "panicked"}
     /\ OriginOnMap
     /\ radius >= 1
     /\ fwidth >= 2
     /\ fheight >= 2
     /\ NoOpaqueCell) =>
        /\ fpc = "done"
        /\ FovPoints = Disc
        /\ origin \in FovPoints
        /\ Region({origin}, FovPoints) = FovPoints

\* From the corner of an open map of three columns and three rows, radius 2
\* leaves the opposite corner out.
C28_Witness ==
    /\ fpc = "done"
    /\ NoOpaqueCell
    /\ fwidth = 3
    /\ fheight = 3
    /\ origin = <<0, 0>>
    /\ radius = 2
    /\ FovPoints = Disc
    /\ <<2, 2>> \notin FovPoints
    /\ Cardinality(FovPoints) = 6

(***************************************************************************)
(* The steps of a line.                                                    *)
(***************************************************************************)
\* From p to q is one step along the first axis towards the end of the line
\* and none or one along the second axis towards it.
StepAlongX(p, q) ==
    /\ q[1] - p[1] = Sign(line_end[1] - line_start[1])
    /\ q[2] - p[2] \in {0, Sign(line_end[2] - line_start[2])}

StepAlongY(p, q) ==
    /\ q[2] - p[2] = Sign(line_end[2] - line_start[2])
    /\ q[1] - p[1] \in {0, Sign(line_end[1] - line_start[1])}

\* C29: two consecutive points of a line differ by exactly 1 along the axis
\* with the larger |delta| and by 0 or 1 along the other, both towards the
\* end, the step onto the last point included; the last point is the end.
C29_UnitSteps ==
    lpc # "idle" =>
        /\ \A k \in 1..(Len(yielded) - 1) :
              LET adx == Abs(line_end[1] - line_start[1])
                  ady == Abs(line_end[2] - line_start[2])
              IN  /\ adx > ady => StepAlongX(yielded[k], yielded[k + 1])
                  /\ ady > adx => StepAlongY(yielded[k], yielded[k + 1])
                  /\ adx = ady => /\ StepAlongX(yielded[k], yielded[k + 1])
                                  /\ StepAlongY(yielded[k], yielded[k + 1])
        /\ Exhausted => yielded[Len(yielded)] = line_end

\* An exhausted line of five points or more, steeper than it is wide, whose
\* last step moves along both axes.
C29_Witness ==
    /\ Exhausted
    /\ Len(yielded) >= 5
    /\ Abs(line_end[2] - line_start[2]) > Abs(line_end[1] - line_start[1])
    /\ line_end[1] # line_start[1]
    /\ yielded[Len(yielded)][1] # yielded[Len(yielded) - 1][1]
    /\ yielded[Len(yielded)][2] # yielded[Len(yielded) - 1][2]

(***************************************************************************)
(* The length of a line while it is iterated.                              *)
(***************************************************************************)
\* The number of points that calls of next() on it yield before None.
RECURSIVE StillYielded(_)
StillYielded(it) ==
    IF LineBresenham_next(it).some
    THEN 1 + StillYielded(LineBresenham_next(it).it)
    ELSE 0

\* C30: after any number of calls of next(), size_hint() and len() are the
\* number of points the iterator still yields, and after next() has returned
\* None the next call returns None too.
C30_ExactSizeThroughout ==
    lpc # "idle" =>
        /\ LineBresenham_size_hint(line_it) = StillYielded(line_it)
        /\ Exhausted => ~LineBresenham_next(line_it).some

\* The line from (0, 0) to (2, 0) after one call of next(): two points are
\* left and size_hint() is 3.
C30_Witness ==
    /\ line_start = <<0, 0>>
    /\ line_end = <<2, 0>>
    /\ yielded = << <<0, 0>> >>
    /\ StillYielded(line_it) = 2
    /\ LineBresenham_size_hint(line_it) = 3

====
